---------------------------- MODULE Spec2Model ----------------------------
(***************************************************************************)
(* A model of legend479/ToVoteOrNotToVote: the drift-diffusion voter       *)
(* (ddm_model.py), the agent generator (agent_generator.py), the survey    *)
(* cleaning pipeline (clean_data.py) and the simulation CLI (main.py).     *)
(*                                                                         *)
(* Real numbers are fixed-point integers with SCALE units per 1.0, and     *)
(* every product and quotient is rounded down the way Mul and Div say.     *)
(***************************************************************************)
EXTENDS Integers, Sequences, FiniteSets, TLC

VARIABLES
    \* ---- DDMVoter (ddm_model.py) ----
    vpc,        \* "new": inputs chosen, "voter": constructed, "failed": __init__ raised
    features,   \* the feature record handed to DDMVoter.__init__
    params,     \* the DDMParameters handed to DDMVoter.__init__
    mu, a, z, sigma,   \* the four derived scalars (0 while there is no voter)
    nNudges,    \* number of apply_nudge calls that returned normally
    raised,     \* the exception raised by the last call, or "none"
    named,      \* the feature names listed in the message of that exception
    warned      \* the features _validate_features warned about

VARIABLES
    \* ---- AgentGenerator.generate_population (agent_generator.py) ----
    gpc,        \* "call": called, "loop": in the for loop, "returned", "raised"
    scenario,   \* what _get_scenario finds for the requested name
    agents,     \* the list `agents` built so far
    gerror      \* the error generate_population raised, or "none"

VARIABLES
    \* ---- VoterSurveyDataCleaner.run_full_cleaning (clean_data.py) ----
    cpc,        \* the next step of run_full_cleaning, or "returned" / "raised"
    file,       \* the CSV file at self.filepath
    tried,      \* the strategies load_data announced with "Trying: ...", in order
    df,         \* self.df: [columns, rows], rows a list of dicts column -> cell
    report,     \* self.cleaning_report
    steps,      \* the cleaning steps run so far, in order
    csv,        \* the cleaned CSV written by save_cleaned_data
    reportText, \* the report text generate_report returned
    reportFile, \* whether the _report.txt file has been written
    removeFlagged, \* the remove_flagged argument of run_full_cleaning
    result,     \* run_full_cleaning's return value, "none" before it returns
    cerror      \* the exception run_full_cleaning raised, or "none"

VARIABLES
    \* ---- main and its run_* functions (main.py) ----
    mpc,        \* the stage main is about to run, or "done" / "raised"
    mode,       \* args.mode
    config,     \* the JSON document at args.config
    configPath, \* the config path main passes to the run_* functions
    optimal,    \* optimal_params returned by run_calibration, <<>> before
    files,      \* the files written to args.output_dir: name -> content
    artifacts,  \* the names of those files in the order they were written
    loadedParams, \* per DDMSimulation built: the stage and the parameters it loaded
    attempted,  \* the hypotheses run_hypothesis_tests has attempted, in order
    all_results, \* all_results of run_hypothesis_tests
    merror      \* the exception main raised, or "none"

VARIABLES
    \* ---- DDMVoter.simulate_decision (ddm_model.py) ----
    spc,        \* "call": not yet called, "loop": in the while loop, "returned", "raised"
    dtArg,      \* the dt argument
    maxTime,    \* the max_time argument
    simMethod,  \* the method argument
    X,          \* the local X
    tSim,       \* the local t, as the binary64 value the additions yield
    nsteps,     \* the number of loop iterations run
    last,       \* <<last_decision, last_decision_time>>, <<>> while both are None
    ret         \* the returned pair, <<>> before the return

VARIABLES
    \* ---- convert_text_to_numeric (convert_numeric.py) ----
    kpc,        \* position in convert_text_to_numeric, or "returned"
    textFile,   \* the CSV file at filepath
    textDf,     \* df: the table as loaded, [columns, rows]
    df_numeric, \* df_numeric
    conversion_stats, \* conversion_stats: column -> converted/missing/unmapped
    numericCsv  \* the rows written to output_path

VARIABLES
    \* ---- the two create_composite_scores (comprehensive_analysis.py,
    \* ---- hypothesis_testing.py), on one respondent row
    rawRow,     \* the respondent's row of the CSV both classes read
    analysisDf, \* the row of VoterSurveyAnalysis.df
    testerDf    \* the row of HypothesisTester.df

VARIABLES
    \* ---- DDMVoter.compute_analytical_probability (ddm_model.py) ----
    called,     \* flips at every call of compute_analytical_probability
    pVote       \* the value the last call returned, <<>> before the first

VARIABLES
    \* ---- DDMSimulation (simulation.py) ----
    epc,        \* "ready" once DDMSimulation.__init__ has run
    ddm_params, \* self.ddm_params
    voters,     \* self.voters: per voter its features and mu, a, z, sigma
    applied,    \* per voter, the nudge types apply_nudges applied to it, in order
    experiment, \* the last call: its arguments, n_control and outcome
    nExperiments \* the number of run_nudge_experiment calls made

VARIABLES
    \* ---- HypothesisTester and VoterSurveyAnalysis (hypothesis_testing.py,
    \* ---- comprehensive_analysis.py), on one survey file
    tpc,        \* the next step of generate_hypothesis_report, or "off" / "done"
    sample,     \* the file's rows by kind: how many are complete, how many civic-only
    correlations, \* per test, what its safe_corr call returned
    test_results, \* results of generate_hypothesis_report
    quartiled,  \* whether H1 entered its quartile breakdown
    p_values,   \* the p_values list of the summary, <<>> before
    relationships \* what model_component_correlations returned and reported

voterVars == <<vpc, features, params, mu, a, z, sigma, nNudges, raised, named, warned>>

genVars == <<gpc, scenario, agents, gerror>>

cleanVars ==
    <<cpc, file, tried, df, report, steps, csv, reportText, reportFile,
      removeFlagged, result, cerror>>

cliVars ==
    <<mpc, mode, config, configPath, optimal, files, artifacts, loadedParams,
      attempted,
      all_results, merror>>

convVars == <<kpc, textFile, textDf, df_numeric, conversion_stats, numericCsv>>

scoreVars == <<rawRow, analysisDf, testerDf>>

probVars == <<called, pVote>>

expVars == <<epc, ddm_params, voters, applied, experiment, nExperiments>>

simVars == <<spc, dtArg, maxTime, simMethod, X, tSim, nsteps, last, ret>>

testerVars == <<tpc, sample, correlations, test_results, quartiled, p_values, relationships>>

TesterIdle ==
    /\ tpc = "off" /\ sample = <<>> /\ correlations = <<>> /\ test_results = <<>>
    /\ quartiled = FALSE /\ p_values = <<>>
    /\ relationships = [returned |-> "not called", reported |-> {}]

vars == <<voterVars, genVars, cleanVars, cliVars, simVars, convVars, scoreVars, probVars, expVars, testerVars>>

ConvIdle ==
    /\ kpc = "off" /\ textFile = <<>> /\ textDf = <<>> /\ df_numeric = <<>>
    /\ conversion_stats = <<>> /\ numericCsv = <<>>

ScoreIdle == rawRow = <<>> /\ analysisDf = <<>> /\ testerDf = <<>>

ProbIdle == called = FALSE /\ pVote = <<>>

ExpIdle ==
    /\ epc = "off" /\ ddm_params = <<>> /\ voters = <<>> /\ applied = <<>>
    /\ experiment = <<>> /\ nExperiments = 0

\* The components at rest: a specification of one component keeps the others so.
VoterIdle ==
    /\ vpc = "off" /\ features = <<>> /\ params = <<>>
    /\ mu = 0 /\ a = 0 /\ z = 0 /\ sigma = 0
    /\ nNudges = 0 /\ raised = "none" /\ named = {} /\ warned = {}

GenIdle == gpc = "off" /\ scenario = <<>> /\ agents = <<>> /\ gerror = "none"

CleanIdle ==
    /\ cpc = "off" /\ file = <<>> /\ tried = <<>> /\ df = <<>> /\ report = <<>> /\ steps = <<>>
    /\ csv = <<>> /\ reportText = <<>> /\ reportFile = FALSE /\ removeFlagged = FALSE
    /\ result = "none" /\ cerror = "none"

CliIdle ==
    /\ mpc = "off" /\ mode = "none" /\ config = <<>> /\ configPath = "none"
    /\ optimal = <<>> /\ files = <<>> /\ artifacts = <<>>
    /\ loadedParams = <<>>
    /\ attempted = <<>> /\ all_results = <<>> /\ merror = "none"

SimIdle ==
    /\ spc = "off" /\ dtArg = <<>> /\ maxTime = <<>> /\ simMethod = "none"
    /\ X = 0 /\ tSim = <<>> /\ nsteps = 0 /\ last = <<>> /\ ret = <<>>

--------------------------------------------------------------------------
(* Fixed-point arithmetic *)

SCALE == 10^4

Mul(x, y) == (x * y) \div SCALE

Div(x, y) == (x * SCALE) \div y

Max(x, y) == IF x >= y THEN x ELSE y

Min(x, y) == IF x <= y THEN x ELSE y

\* np.clip(x, lo, hi)
Clip(x, lo, hi) == Min(Max(x, lo), hi)

--------------------------------------------------------------------------
(* DDMParameters and the feature record *)

\* The dataclass defaults, in SCALE units.
DDMParameters ==
    [ beta_D |-> 1500, beta_PI |-> 1200, beta_IS |-> 1000, beta_S |-> 2000,
      beta_H |-> 1800, beta_C |-> -1400, beta_EC |-> 800, beta_OC |-> 500,
      drift_rate_base |-> 1000, threshold_base |-> 20000, sigma_base |-> 2000,
      gamma_risk |-> 4000, gamma_edu |-> 3000, gamma_OC |-> 2000,
      alpha_H |-> 2500, alpha_PI |-> 1000, alpha_D |-> 1000,
      nu_edu |-> 3000, nu_OC |-> 1500 ]

\* The list `required` of _validate_features.
Required ==
    { "civic_duty", "habit_strength", "social_pressure_sensitivity",
      "risk_aversion", "education_normalized", "overconfidence",
      "voting_cost_total", "electoral_competitiveness" }

\* dict.get(name, default)
Get(f, name, default) == IF name \in DOMAIN f THEN f[name] ELSE default

HALF == SCALE \div 2

--------------------------------------------------------------------------
(* The inputs a voter is constructed from *)

\* Values a feature takes in the model: in range, and for two of them out of
\* the [0,1] range the validation only warns about.
FeatureValues(name) ==
    CASE name = "education_normalized" -> {0, SCALE, 4 * SCALE}
      [] name = "overconfidence" -> {-5 * SCALE, 0, SCALE}
      [] name = "voting_cost_total" -> {HALF}
      [] name = "electoral_competitiveness" -> {HALF}
      [] name = "partisan_identity_strength" -> {SCALE}
      [] OTHER -> {0, SCALE}

\* Required features a record of the model may lack.
MayBeMissing == {"civic_duty", "risk_aversion", "electoral_competitiveness"}

Optional == {"partisan_identity_strength"}

FullRecords ==
    { [n \in Required \cup Optional |->
          CASE n = "civic_duty" -> cd
            [] n = "habit_strength" -> hs
            [] n = "social_pressure_sensitivity" -> sp
            [] n = "risk_aversion" -> ra
            [] n = "education_normalized" -> ed
            [] n = "overconfidence" -> oc
            [] OTHER -> CHOOSE v \in FeatureValues(n) : TRUE] :
        cd \in FeatureValues("civic_duty"),
        hs \in FeatureValues("habit_strength"),
        sp \in FeatureValues("social_pressure_sensitivity"),
        ra \in FeatureValues("risk_aversion"),
        ed \in FeatureValues("education_normalized"),
        oc \in FeatureValues("overconfidence") }

\* f restricted to the keys in D
Restrict(f, D) == [n \in D |-> f[n]]

FeatureRecords ==
    { Restrict(f, (Required \cup O) \ M) :
        f \in FullRecords, M \in SUBSET MayBeMissing, O \in SUBSET Optional }

\* DDMParameters objects of the model: the defaults, and a threshold_base and a
\* sigma_base at the low end (threshold_base 0.5 is the calibration's lower bound).
ParameterSets ==
    { [DDMParameters EXCEPT !.threshold_base = tb, !.sigma_base = sb] :
        tb \in {5000, 20000}, sb \in {500, 2000} }


--------------------------------------------------------------------------
(* DDMVoter.__init__ and the four derived scalars *)

\* missing = [f for f in required if f not in self.features]
MissingFeatures(f) == Required \ DOMAIN f

\* The required features _validate_features warns about: present, outside [0,1].
OutOfRange(f) == { n \in Required \cap DOMAIN f : ~(0 <= f[n] /\ f[n] <= SCALE) }

ComputeDriftRate(f, p) ==
    p.drift_rate_base
    + Mul(p.beta_D, f["civic_duty"])
    + Mul(p.beta_PI, Get(f, "partisan_identity_strength", HALF))
    + Mul(p.beta_IS, Get(f, "issue_salience", HALF))
    + Mul(p.beta_S, f["social_pressure_sensitivity"])
    + Mul(p.beta_H, f["habit_strength"])
    + Mul(p.beta_C, f["voting_cost_total"])
    + Mul(p.beta_EC, f["electoral_competitiveness"])
    + Mul(p.beta_OC, f["overconfidence"])

\* The divisor (1 + gamma_OC * overconfidence) of the threshold formula.
ThresholdDivisor(f, p) == SCALE + Mul(p.gamma_OC, f["overconfidence"])

\* The threshold formula before the floor; defined when the divisor is not 0.
RawThreshold(f, p) ==
    Mul(p.threshold_base,
        Div(Mul(SCALE + Mul(p.gamma_risk, f["risk_aversion"]),
                SCALE - Mul(p.gamma_edu, f["education_normalized"])),
            ThresholdDivisor(f, p)))

THRESHOLD_FLOOR == 5000

SIGMA_FLOOR == 500

ComputeThreshold(f, p) == Max(RawThreshold(f, p), THRESHOLD_FLOOR)

\* z_proportion, clipped to [0.1, 0.9]
StartingProportion(f, p) ==
    Clip(HALF
         + Mul(p.alpha_H, f["habit_strength"])
         + Mul(p.alpha_PI, Get(f, "partisan_identity_strength", HALF) - HALF)
         + Mul(p.alpha_D, f["civic_duty"] - HALF),
         1000, 9000)

ComputeStartingPoint(f, p, thr) == Mul(thr, StartingProportion(f, p))

RawDiffusion(f, p) ==
    Mul(p.sigma_base,
        Mul(SCALE + Mul(p.nu_edu, SCALE - f["education_normalized"]),
            SCALE - Mul(p.nu_OC, f["overconfidence"])))

ComputeDiffusion(f, p) == Max(RawDiffusion(f, p), SIGMA_FLOOR)

\* DDMVoter.__init__: validation first, then mu, a, z, sigma in that order. The
\* threshold's division raises ZeroDivisionError when its divisor is 0.
Construct ==
    /\ vpc = "new"
    /\ nNudges' = 0
    /\ UNCHANGED <<features, params, genVars, cleanVars, cliVars, simVars, convVars, scoreVars, probVars, expVars, testerVars>>
    /\ IF MissingFeatures(features) # {}
       THEN /\ vpc' = "failed"
            /\ raised' = "ValueError: Missing required features"
            /\ named' = MissingFeatures(features)
            /\ warned' = {}
            /\ UNCHANGED <<mu, a, z, sigma>>
       ELSE /\ warned' = OutOfRange(features)
            /\ named' = {}
            /\ IF ThresholdDivisor(features, params) = 0
               THEN /\ vpc' = "failed"
                    /\ raised' = "ZeroDivisionError"
                    /\ UNCHANGED <<mu, a, z, sigma>>
               ELSE /\ vpc' = "voter"
                    /\ raised' = "none"
                    /\ mu' = ComputeDriftRate(features, params)
                    /\ a' = ComputeThreshold(features, params)
                    /\ z' = ComputeStartingPoint(features, params, a')
                    /\ sigma' = ComputeDiffusion(features, params)

--------------------------------------------------------------------------
(* DDMVoter.apply_nudge *)

NudgeTypes ==
    { "monetary", "social_norm", "identity", "disclosure", "implementation",
      "competitiveness" }

\* The nudge_params handed to apply_nudge: the empty dict, so every parameter
\* takes the default its nudge_params.get names.
DefaultNudgeParams == <<>>

\* A voter's four scalars as a record.
Scalars == [mu |-> mu, a |-> a, z |-> z, sigma |-> sigma]

NudgeMonetary(v, f, p, np) ==
    LET lottery_value == Get(np, "lottery_value", 3000)
        lottery_prob == Get(np, "lottery_prob", 100)
        lottery_boost == Mul(Mul(lottery_value, lottery_prob),
                             Div(SCALE, SCALE + f["civic_duty"]))
    IN [v EXCEPT !.mu = v.mu + lottery_boost]

NudgeSocialNorm(v, f, p, np) ==
    LET revealed == Get(np, "revealed_turnout", 7500)
        prior == Get(np, "prior_belief", 5000)
        social_boost == Mul(Mul(p.beta_S, HALF), revealed - prior)
    IN [v EXCEPT !.mu = v.mu + social_boost, !.sigma = Mul(v.sigma, 8500)]

NudgeIdentity(v, f, p, np) ==
    LET identity_strength == Get(np, "identity_strength", 7000)
        frame_strength == Get(np, "frame_strength", SCALE)
        identity_shift == Mul(Mul(1500, identity_strength), frame_strength)
    IN [v EXCEPT !.z = Clip(v.z + Mul(identity_shift, v.a),
                            Mul(500, v.a), Mul(9500, v.a))]

NudgeDisclosure(v, f, p, np) ==
    LET threat_level == Get(np, "threat_level", 15000)
        disclosure_boost ==
            Mul(Mul(p.beta_S, f["social_pressure_sensitivity"]), threat_level)
    IN [v EXCEPT !.mu = v.mu + disclosure_boost]

\* NudgeImplementation without the final re-clamp of z.
NudgeImplementationNoClamp(v, f, p, np) ==
    LET plan_quality == Get(np, "plan_quality", 7000)
        a1 == Mul(v.a, SCALE - Mul(1500, plan_quality))
        z1 == v.z + Mul(Mul(1000, plan_quality), a1)
    IN [v EXCEPT !.a = a1, !.z = z1]

NudgeImplementation(v, f, p, np) ==
    LET plan_quality == Get(np, "plan_quality", 7000)
        a1 == Mul(v.a, SCALE - Mul(1500, plan_quality))
        z1 == v.z + Mul(Mul(1000, plan_quality), a1)
    IN [v EXCEPT !.a = a1, !.z = Clip(z1, Mul(500, a1), Mul(9500, a1))]

NudgeCompetitiveness(v, f, p, np) ==
    LET comp_info == Get(np, "competitiveness_info", 8000)
        efficacy == Mul(4000, f["education_normalized"])
                    + Mul(3000, f["overconfidence"])
                    + Mul(3000, Get(f, "partisan_identity_strength", HALF))
        comp_boost == Mul(Mul(p.beta_EC, comp_info), efficacy)
    IN [v EXCEPT !.mu = v.mu + comp_boost, !.sigma = Mul(v.sigma, 8500)]

\* The if/elif chain of apply_nudge, for a recognized nudge type.
Nudged(v, f, p, type, np) ==
    CASE type = "monetary" -> NudgeMonetary(v, f, p, np)
      [] type = "social_norm" -> NudgeSocialNorm(v, f, p, np)
      [] type = "identity" -> NudgeIdentity(v, f, p, np)
      [] type = "disclosure" -> NudgeDisclosure(v, f, p, np)
      [] type = "implementation" -> NudgeImplementation(v, f, p, np)
      [] type = "competitiveness" -> NudgeCompetitiveness(v, f, p, np)

MaxNudges == 3

\* apply_nudge(nudge_type, nudge_params): a recognized type changes the scalars
\* in place; any other type raises ValueError and changes nothing.
ApplyNudge(type) ==
    /\ vpc = "voter"
    /\ nNudges < MaxNudges
    /\ UNCHANGED <<vpc, features, params, named, warned, genVars, cleanVars, cliVars, simVars, convVars, scoreVars, probVars, expVars, testerVars>>
    /\ IF type \in NudgeTypes
       THEN LET v == Nudged(Scalars, features, params, type, DefaultNudgeParams)
            IN /\ mu' = v.mu
               /\ a' = v.a
               /\ z' = v.z
               /\ sigma' = v.sigma
               /\ nNudges' = nNudges + 1
               /\ raised' = "none"
       ELSE /\ raised' = "ValueError: Unknown nudge type"
            /\ UNCHANGED <<mu, a, z, sigma, nNudges>>

--------------------------------------------------------------------------
(* The voter specification *)

Init ==
    /\ vpc = "new"
    /\ features \in FeatureRecords
    /\ params \in ParameterSets
    /\ mu = 0 /\ a = 0 /\ z = 0 /\ sigma = 0
    /\ nNudges = 0
    /\ raised = "none"
    /\ named = {}
    /\ warned = {}
    /\ GenIdle
    /\ CleanIdle
    /\ CliIdle
    /\ SimIdle
    /\ ConvIdle
    /\ ScoreIdle
    /\ ProbIdle
    /\ ExpIdle
    /\ TesterIdle

Next ==
    \/ Construct
    \/ \E type \in NudgeTypes \cup {"unknown"} : ApplyNudge(type)

Spec == Init /\ [][Next]_vars

--------------------------------------------------------------------------
(* AgentGenerator.generate_population *)

\* Values of an agent's dict: a number n, the string f"agent_{i}", or another
\* string, each tagged with its kind.
Num(n) == <<"num", n>>

AgentId(i) == <<"agent_", i>>

Str(k) == <<"str", k>>

GenerationMethods ==
    { "beta_distribution", "beta_distribution_from_proxy",
      "binomial_draw_normalized", "probabilistic_distribution",
      "probabilistic_assignment" }

\* The values _generate_feature may return for a recognized method: draws
\* from (0,1) for the beta methods, n_votes / n with n = 2 for the binomial
\* one, 0.0 or 1.0 for the assignment.
GenerateFeature(method) ==
    CASE method = "beta_distribution" -> {Num(2500), Num(7500)}
      [] method = "beta_distribution_from_proxy" -> {Num(2500), Num(7500)}
      [] method = "binomial_draw_normalized" -> {Num(0), Num(HALF), Num(SCALE)}
      [] method = "probabilistic_distribution" -> {Num(2500), Num(7500)}
      [] method = "probabilistic_assignment" -> {Num(0), Num(SCALE)}

\* d1 updated with d2, as dict.update does: d2's keys win.
Update(d1, d2) ==
    [k \in DOMAIN d1 \cup DOMAIN d2 |-> IF k \in DOMAIN d2 THEN d2[k] ELSE d1[k]]

\* _add_default_features: a default is added only for a key the agent lacks.
AddDefaultFeatures(agent, age) ==
    LET defaults ==
            [ age |-> Num(age),
              issue_salience |-> Num(HALF),
              partisan_identity_strength |->
                  Get(agent, "partisan_identity_strength", Num(HALF)),
              perceived_integrity |-> Num(6000),
              personality_match_candidate |-> Num(HALF) ]
    IN Update(defaults, agent)

\* The feature rules of agent_generation_rules: every key but population_size.
FeatureRules(rules) == DOMAIN rules \ {"population_size"}

\* The agents _generate_single_agent may return, when every rule's method is
\* recognized: the id, then one value per rule, then the global context, then
\* the defaults.
GenerateSingleAgent(agent_id, rules, context) ==
    { AddDefaultFeatures(
          Update(Update([voter_id |-> AgentId(agent_id)], drawn), context), age) :
        drawn \in { d \in [FeatureRules(rules) -> UNION {GenerateFeature(m) : m \in GenerationMethods}] :
                      \A k \in DOMAIN d : d[k] \in GenerateFeature(rules[k].method) },
        age \in {18, 79} }

\* The rules whose method _generate_feature does not recognize.
UnknownMethodRules(rules) ==
    { k \in FeatureRules(rules) : rules[k].method \notin GenerationMethods }

\* generate_population up to the loop: the scenario lookup.
GenerateCall ==
    /\ gpc = "call"
    /\ IF ~scenario.found
       THEN gpc' = "raised" /\ gerror' = "ValueError: Scenario not found"
       ELSE gpc' = "loop" /\ gerror' = "none"
    /\ agents' = <<>>
    /\ UNCHANGED <<scenario, voterVars, cleanVars, cliVars, simVars, convVars, scoreVars, probVars, expVars, testerVars>>

\* One iteration of `for i in range(pop_size)`.
GenerateLoop ==
    /\ gpc = "loop"
    /\ Len(agents) < scenario.rules["population_size"]
    /\ IF UnknownMethodRules(scenario.rules) # {}
       THEN /\ gpc' = "raised"
            /\ gerror' = "ValueError: Unknown generation method"
            /\ agents' = <<>>
       ELSE /\ \E agent \in GenerateSingleAgent(Len(agents), scenario.rules,
                                                 scenario.context) :
                  agents' = Append(agents, agent)
            /\ UNCHANGED <<gpc, gerror>>
    /\ UNCHANGED <<scenario, voterVars, cleanVars, cliVars, simVars, convVars, scoreVars, probVars, expVars, testerVars>>

\* `return agents`, once the loop has run pop_size times.
GenerateReturn ==
    /\ gpc = "loop"
    /\ Len(agents) >= scenario.rules["population_size"]
    /\ gpc' = "returned"
    /\ UNCHANGED <<scenario, agents, gerror, voterVars, cleanVars, cliVars, simVars, convVars, scoreVars, probVars, expVars, testerVars>>

(* The scenarios of the model *)

MaxPopulation == 2

\* A feature rule; only its method decides what _generate_feature does.
Rule(method) == [method |-> method]

\* agent_generation_rules: population_size, a rule for civic_duty with any
\* method (one of them unrecognized), and possibly a rule for a feature that is
\* itself named voter_id.
RuleSets ==
    { Update(Update([population_size |-> n], cd), vid) :
        n \in 0..MaxPopulation,
        cd \in {<<>>} \cup { [civic_duty |-> Rule(m)] :
                                m \in GenerationMethods \cup {"uniform"} },
        vid \in {<<>>, [voter_id |-> Rule("probabilistic_assignment")]} }

\* global_context: any subset of these keys.
Contexts ==
    { Restrict([electoral_competitiveness |-> Num(HALF), voter_id |-> Str(1)], D) :
        D \in SUBSET {"electoral_competitiveness", "voter_id"} }

Scenarios ==
    { [found |-> TRUE, rules |-> r, context |-> c] : r \in RuleSets, c \in Contexts }
    \cup { [found |-> FALSE, rules |-> <<>>, context |-> <<>>] }

InitGen ==
    /\ gpc = "call"
    /\ scenario \in Scenarios
    /\ agents = <<>>
    /\ gerror = "none"
    /\ VoterIdle
    /\ CleanIdle
    /\ CliIdle
    /\ SimIdle
    /\ ConvIdle
    /\ ScoreIdle
    /\ ProbIdle
    /\ ExpIdle
    /\ TesterIdle

NextGen == GenerateCall \/ GenerateLoop \/ GenerateReturn

SpecGen == InitGen /\ [][NextGen]_vars

\* C3: for every scenario found, whatever its rules and global_context
\* contain, generate_population returns population_size records and the record
\* at position i has voter_id agent_i.
C3_VoterIdsInOrder ==
    gpc = "returned" =>
        /\ Len(agents) = scenario.rules["population_size"]
        /\ \A i \in 1..Len(agents) : agents[i]["voter_id"] = AgentId(i - 1)

\* C12: for every scenario with at least one feature rule whose method is not
\* one of the five recognized names, and every population_size >= 0,
\* generate_population ends with an 'Unknown generation method' error and
\* returns no population.
C12_UnknownMethodAlwaysFails ==
    ( /\ gpc \in {"raised", "returned"}
      /\ scenario.found
      /\ UnknownMethodRules(scenario.rules) # {} ) =>
        /\ gpc = "raised"
        /\ gerror = "ValueError: Unknown generation method"
        /\ agents = <<>>

--------------------------------------------------------------------------
(* Claims about the voter *)

\* C1: in every state reached by constructing a voter and applying nudges, the
\* threshold is at least 0.5 and the diffusion coefficient at least 0.05.
C1_FloorsHoldAfterNudges ==
    vpc = "voter" => a >= THRESHOLD_FLOOR /\ sigma >= SIGMA_FLOOR

\* C2: right after construction 0.1a <= z <= 0.9a, and after any sequence of
\* nudges z stays strictly between the boundaries, within [0.05a, 0.95a].
C2_StartingPointBetweenBoundaries ==
    vpc = "voter" =>
        /\ 0 < z /\ z < a
        /\ Mul(500, a) <= z /\ z <= Mul(9500, a)
        /\ (nNudges = 0 => Mul(a, 1000) <= z /\ z <= Mul(a, 9000))

\* A voter nudged at least twice whose threshold was lowered below the floor
\* it was built with and whose starting point sits on the upper clamp.
C2_Witness ==
    /\ vpc = "voter"
    /\ nNudges >= 2
    /\ a < ComputeThreshold(features, params)
    /\ z = Mul(9500, a)

\* C4: construction fails exactly when a required feature is absent, the error
\* names exactly the absent ones, and an out-of-range feature never fails it.
C4_ConstructionFailsIffMissing ==
    vpc # "new" =>
        /\ (vpc = "failed") <=> (MissingFeatures(features) # {})
        /\ vpc = "failed" =>
              /\ raised = "ValueError: Missing required features"
              /\ named = MissingFeatures(features)

\* C14: for any feature combination (all required features present) and any
\* DDMParameters, construction does not fail, the realized threshold is the
\* raw threshold formula floored at 0.5 and the realized diffusion
\* coefficient is the raw diffusion formula floored at 0.05.
C14_RealizedIsFlooredRawAndNoFailure ==
    (vpc # "new" /\ nNudges = 0 /\ MissingFeatures(features) = {}) =>
        /\ vpc = "voter"
        /\ a = ( IF RawThreshold(features, params) < HALF
                 THEN HALF ELSE RawThreshold(features, params) )
        /\ sigma = ( IF RawDiffusion(features, params) < HALF \div 10
                     THEN HALF \div 10 ELSE RawDiffusion(features, params) )

--------------------------------------------------------------------------
(* VoterSurveyDataCleaner: the table and its columns *)

RequiredCols ==
    << "q1_emotion", "q2_frequency", "q3_effort_tradeoff", "q4_perceived_impact",
       "q5_civic_duty", "q6_emotional_reward", "q7_trust", "q8_social_influence",
       "q9_information_load", "q10_disillusionment", "q11_online_voting",
       "q12_competitiveness", "q13_incentive" >>

Elements(s) == { s[i] : i \in DOMAIN s }

RequiredSet == Elements(RequiredCols)

DemographicCols == {"age_range", "location"}

MetadataCols == {"id", "created_at"}

OpenResponseCol == "q14_open_response"

AllExpected == RequiredSet \cup DemographicCols \cup MetadataCols \cup {OpenResponseCol}

\* self.valid_ranges[col] = (min_val, max_val)
\* a range of 1 to 5 for every question
ValidRangeOneToFive(col) == <<1, 5>>

ValidRange(col) == IF col = "q4_perceived_impact" THEN <<1, 4>> ELSE <<1, 5>>

\* Cells of the loaded columns: a number Num(n), a missing value, or text.
NaN == <<"nan", 0>>

Text(k) == <<"text", k>>

IsNa(cell) == cell[1] = "nan"

IsText(cell) == cell[1] = "text"

\* rows with column col set to the given values, one per row
WithCol(rows, col, values) ==
    [i \in DOMAIN rows |-> Update(rows[i], col :> values[i])]

\* Series.sum() of the boolean column col
CountTrue(rows, col) == Cardinality({ i \in DOMAIN rows : rows[i][col] })

\* cleaning_report[key] = value
Record(key, value) == Update(report, key :> value)

--------------------------------------------------------------------------
(* The cleaning steps, in the order run_full_cleaning calls them *)

LoadingMethods ==
    << "Standard", "Skip bad lines", "Semicolon delimiter",
       "Semicolon + skip bad lines", "Tab delimiter", "UTF-8 encoding",
       "Latin-1 encoding", "Quote handling" >>

\* The last strategy that does not raise on the file; 0 when every one raises.
LastSuccess(f) ==
    IF \A i \in DOMAIN LoadingMethods : i \in f.failing
    THEN 0
    ELSE CHOOSE i \in DOMAIN LoadingMethods :
             i \notin f.failing /\ \A j \in (i + 1)..Len(LoadingMethods) : j \in f.failing

\* The first strategy, in priority order, that does not raise on the file; 0
\* when every one raises.
FirstSuccess(f) ==
    IF \A i \in DOMAIN LoadingMethods : i \in f.failing
    THEN 0
    ELSE CHOOSE i \in DOMAIN LoadingMethods :
             i \notin f.failing /\ \A j \in 1..(i - 1) : j \in f.failing

\* A step that ran to its end: control moves to the next one.
Continue(step, next) ==
    /\ cpc' = next
    /\ steps' = Append(steps, step)
    /\ UNCHANGED <<file, removeFlagged, cerror, voterVars, genVars, cliVars, simVars, convVars, scoreVars, probVars, expVars, testerVars>>

\* A step after load_data that ran to its end.
Done(step, next) ==
    /\ Continue(step, next)
    /\ UNCHANGED tried

\* A step that raised: run_full_cleaning catches nothing.
Raise(step, error) ==
    /\ cpc' = "raised"
    /\ cerror' = error
    /\ steps' = Append(steps, step)
    /\ UNCHANGED <<file, tried, df, report, csv, reportText, reportFile,
                   removeFlagged, result, voterVars, genVars, cliVars, simVars, convVars, scoreVars, probVars, expVars, testerVars>>

\* The strategies the loop of load_data reaches: on a missing file the first
\* one raises FileNotFoundError and the function returns at once; otherwise
\* the loop goes on past every strategy that raises.
Attempted(f) ==
    IF ~f.exists THEN SubSeq(LoadingMethods, 1, 1)
    ELSE IF FirstSuccess(f) = 0 THEN LoadingMethods
    ELSE SubSeq(LoadingMethods, 1, FirstSuccess(f))

LoadData ==
    /\ cpc = "load_data"
    /\ tried' = Attempted(file)
    /\ IF ~file.exists \/ FirstSuccess(file) = 0
       THEN /\ result' = "False"
            /\ Continue("load_data", "returned")
            /\ UNCHANGED <<df, report>>
       ELSE /\ df' = file.table
            /\ report' = Update(report,
                   [ initial_count |-> Len(file.table.rows),
                     loading_method |-> LoadingMethods[FirstSuccess(file)] ])
            /\ Continue("load_data", "validate_columns")
            /\ UNCHANGED result
    /\ UNCHANGED <<csv, reportText, reportFile>>

ValidateColumns ==
    /\ cpc = "validate_columns"
    /\ report' = Update(report,
           [ missing_columns |-> AllExpected \ df.columns,
             extra_columns |-> df.columns \ AllExpected ])
    /\ Done("validate_columns", "check_data_types")
    /\ UNCHANGED <<df, csv, reportText, reportFile, result>>

\* pd.to_numeric / pd.to_datetime with errors='coerce': text becomes missing.
Coerce(cell) == IF IsText(cell) THEN NaN ELSE cell

CheckDataTypes ==
    /\ cpc = "check_data_types"
    /\ df' = [df EXCEPT !.rows =
                 [i \in DOMAIN df.rows |->
                     [c \in df.columns |->
                         IF c \in RequiredSet \cup {"created_at"}
                         THEN Coerce(df.rows[i][c])
                         ELSE df.rows[i][c]]]]
    /\ Done("check_data_types", "check_value_ranges")
    /\ UNCHANGED <<report, csv, reportText, reportFile, result>>

\* invalid_mask of check_value_ranges, for one cell
OutOfValidRange(col, cell) ==
    ~IsNa(cell) /\ (cell[2] < ValidRange(col)[1] \/ cell[2] > ValidRange(col)[2])

\* invalid_count of check_value_ranges, for one column
InvalidCount(rows, col) ==
    Cardinality({ i \in DOMAIN rows : OutOfValidRange(col, rows[i][col]) })

CheckValueRanges ==
    /\ cpc = "check_value_ranges"
    /\ LET checked == RequiredSet \cap df.columns
           issues == { c \in checked : InvalidCount(df.rows, c) > 0 }
       IN /\ df' = [df EXCEPT !.rows =
                       [i \in DOMAIN df.rows |->
                           [c \in df.columns |->
                               IF c \in checked /\ OutOfValidRange(c, df.rows[i][c])
                               THEN NaN
                               ELSE df.rows[i][c]]]]
          /\ report' = Record("range_issues",
                              [c \in issues |-> InvalidCount(df.rows, c)])
    /\ Done("check_value_ranges", "assess_completeness")
    /\ UNCHANGED <<csv, reportText, reportFile, result>>

\* df[self.required_cols].isna().sum(axis=1), for one row
MissingCount(row) == Cardinality({ c \in RequiredSet : IsNa(row[c]) })

NumQuestions == Len(RequiredCols)

CategorizeQuality(missing_count) ==
    IF missing_count = 0 THEN "Complete"
    ELSE IF missing_count <= 3 THEN "Mostly Complete (>75%)"
    ELSE IF missing_count <= 6 THEN "Partial (50-75%)"
    ELSE "Minimal (<50%)"

CompletenessRate(row) == ((NumQuestions - MissingCount(row)) * 100 * SCALE) \div NumQuestions

IsComplete(row) == MissingCount(row) = 0

ResponseQuality(row) == CategorizeQuality(MissingCount(row))

\* value_counts().to_dict() of a column: each value present, with its count
ValueCounts(rows, col) ==
    [ v \in { rows[i][col] : i \in DOMAIN rows } |->
        Cardinality({ i \in DOMAIN rows : rows[i][col] = v }) ]

\* df[self.required_cols] raises KeyError when a required column is absent.
AssessCompleteness ==
    /\ cpc = "assess_completeness"
    /\ IF ~(RequiredSet \subseteq df.columns)
       THEN Raise("assess_completeness", "KeyError")
       ELSE LET rows1 == WithCol(df.rows, "missing_count",
                    [i \in DOMAIN df.rows |-> MissingCount(df.rows[i])])
                rows2 == WithCol(rows1, "completeness_rate",
                    [i \in DOMAIN rows1 |-> CompletenessRate(rows1[i])])
                rows3 == WithCol(rows2, "is_complete",
                    [i \in DOMAIN rows2 |-> IsComplete(rows2[i])])
                rows4 == WithCol(rows3, "response_quality",
                    [i \in DOMAIN rows3 |-> ResponseQuality(rows3[i])])
            IN /\ df' = [ columns |-> df.columns \cup
                              { "missing_count", "completeness_rate", "is_complete",
                                "response_quality" },
                          rows |-> rows4 ]
               /\ report' = Record("completeness_distribution",
                                   ValueCounts(rows4, "response_quality"))
               /\ Done("assess_completeness", "analyze_missing_patterns")
               /\ UNCHANGED <<csv, reportText, reportFile, result>>

AnalyzeMissingPatterns ==
    /\ cpc = "analyze_missing_patterns"
    /\ report' = Record("missing_by_question",
           [ c \in RequiredSet \cap df.columns |->
               Cardinality({ i \in DOMAIN df.rows : IsNa(df.rows[i][c]) }) ])
    /\ Done("analyze_missing_patterns", "check_straightlining")
    /\ UNCHANGED <<df, csv, reportText, reportFile, result>>

\* df[self.required_cols].nunique(axis=1): distinct non-missing answers
UniqueAnswers(row) == Cardinality({ row[c] : c \in RequiredSet } \ {NaN})

PossibleStraightlining(row) == UniqueAnswers(row) <= 2

CheckStraightlining ==
    /\ cpc = "check_straightlining"
    /\ LET rows1 == WithCol(df.rows, "unique_answers",
                    [i \in DOMAIN df.rows |-> UniqueAnswers(df.rows[i])])
           rows2 == WithCol(rows1, "possible_straightlining",
                    [i \in DOMAIN rows1 |-> PossibleStraightlining(rows1[i])])
       IN /\ df' = [ columns |-> df.columns \cup
                         {"unique_answers", "possible_straightlining"},
                     rows |-> rows2 ]
          /\ report' = Record("straightlining_count",
                              CountTrue(rows2, "possible_straightlining"))
    /\ Done("check_straightlining", "clean_open_responses")
    /\ UNCHANGED <<csv, reportText, reportFile, result>>

\* Text(0) stands for a literal of non_responses or one shorter than 3 characters.
HasContent(row) ==
    ~IsNa(row[OpenResponseCol]) /\ row[OpenResponseCol] # Text(0)

\* Returns early, recording nothing, when the open-response column is absent.
CleanOpenResponses ==
    /\ cpc = "clean_open_responses"
    /\ IF OpenResponseCol \notin df.columns
       THEN UNCHANGED <<df, report>>
       ELSE LET rows1 == WithCol(df.rows, "q14_has_content",
                    [i \in DOMAIN df.rows |-> HasContent(df.rows[i])])
            IN /\ df' = [ columns |-> df.columns \cup {"q14_has_content"},
                          rows |-> rows1 ]
               /\ report' = Record("substantive_open_responses",
                                   CountTrue(rows1, "q14_has_content"))
    /\ Done("clean_open_responses", "check_demographics")
    /\ UNCHANGED <<csv, reportText, reportFile, result>>

MissingAllDemographics(row) == IsNa(row["age_range"]) /\ IsNa(row["location"])

\* self.df['age_range'] and self.df['location'] are read unguarded.
CheckDemographics ==
    /\ cpc = "check_demographics"
    /\ IF ~(DemographicCols \subseteq df.columns)
       THEN Raise("check_demographics", "KeyError")
       ELSE LET rows1 == WithCol(df.rows, "missing_all_demographics",
                    [i \in DOMAIN df.rows |-> MissingAllDemographics(df.rows[i])])
            IN /\ df' = [ columns |-> df.columns \cup {"missing_all_demographics"},
                          rows |-> rows1 ]
               /\ report' = Record("missing_all_demographics",
                                   CountTrue(rows1, "missing_all_demographics"))
               /\ Done("check_demographics", "detect_duplicates")
               /\ UNCHANGED <<csv, reportText, reportFile, result>>

\* Two rows agree on every required question; missing equals missing, as in
\* DataFrame.duplicated.
SameAnswers(r1, r2) == \A c \in RequiredSet : r1[c] = r2[c]

\* The mask keep='last' would give: a row is marked when a later row agrees.
DuplicateMaskKeepLast(rows, i) ==
    \E j \in (i + 1)..Len(rows) : SameAnswers(rows[j], rows[i])

\* df.duplicated(subset=required_cols, keep='first'), for the row at position i
DuplicateMask(rows, i) == \E j \in 1..(i - 1) : SameAnswers(rows[j], rows[i])

DetectDuplicates ==
    /\ cpc = "detect_duplicates"
    /\ df' = [ columns |-> df.columns \cup {"is_duplicate"},
               rows |-> [i \in DOMAIN df.rows |->
                            Update(df.rows[i],
                                   "is_duplicate" :> DuplicateMask(df.rows, i))] ]
    /\ report' = Record("duplicate_count",
           Cardinality({ i \in DOMAIN df.rows : DuplicateMask(df.rows, i) }))
    /\ Done("detect_duplicates", "check_response_timing")
    /\ UNCHANGED <<csv, reportText, reportFile, result>>

\* row r1 sorts before r2 under sort_values('created_at'): missing goes last
Before(r1, r2) ==
    /\ ~IsNa(r1["created_at"])
    /\ IsNa(r2["created_at"]) \/ r1["created_at"][2] < r2["created_at"][2]

\* rows with r inserted after every row that does not sort after it
RECURSIVE Insert(_, _)
Insert(sorted, r) ==
    IF sorted = <<>> THEN <<r>>
    ELSE IF Before(r, sorted[Len(sorted)])
         THEN Append(Insert(SubSeq(sorted, 1, Len(sorted) - 1), r), sorted[Len(sorted)])
         ELSE Append(sorted, r)

\* df.sort_values('created_at')
RECURSIVE SortByCreatedAt(_)
SortByCreatedAt(rows) ==
    IF rows = <<>> THEN <<>>
    ELSE Insert(SortByCreatedAt(SubSeq(rows, 1, Len(rows) - 1)), rows[Len(rows)])

\* created_at.diff().dt.total_seconds() at position i of the sorted rows
TimeDiff(rows, i) ==
    IF i = 1 \/ IsNa(rows[i]["created_at"]) \/ IsNa(rows[i - 1]["created_at"])
    THEN NaN
    ELSE Num(rows[i]["created_at"][2] - rows[i - 1]["created_at"][2])

SuspiciousTiming(row) ==
    ~IsNa(row["time_diff_seconds"]) /\ row["time_diff_seconds"][2] < 30

\* Returns early when there is no timestamp at all; otherwise re-orders the rows.
CheckResponseTiming ==
    /\ cpc = "check_response_timing"
    /\ IF \/ "created_at" \notin df.columns
          \/ \A i \in DOMAIN df.rows : IsNa(df.rows[i]["created_at"])
       THEN UNCHANGED <<df, report>>
       ELSE LET sorted == SortByCreatedAt(df.rows)
                rows1 == [i \in DOMAIN sorted |->
                             Update(sorted[i],
                                    "time_diff_seconds" :> TimeDiff(sorted, i))]
                rows2 == WithCol(rows1, "suspicious_timing",
                    [i \in DOMAIN rows1 |-> SuspiciousTiming(rows1[i])])
            IN /\ df' = [ columns |-> df.columns \cup
                              {"time_diff_seconds", "suspicious_timing"},
                          rows |-> rows2 ]
               /\ report' = Record("suspicious_timing",
                                   CountTrue(rows2, "suspicious_timing"))
    /\ Done("check_response_timing", "identify_removals")
    /\ UNCHANGED <<csv, reportText, reportFile, result>>

\* df[self.required_cols].isna().any(axis=1): some question missing
AnyQuestionNull(row) == \E c \in RequiredSet : IsNa(row[c])

\* df[self.required_cols].isna().all(axis=1)
AllQuestionsNull(row) == \A c \in RequiredSet : IsNa(row[c])

IdentifyRemovals ==
    /\ cpc = "identify_removals"
    /\ LET rows1 == WithCol(df.rows, "recommended_for_removal",
                    [i \in DOMAIN df.rows |-> AllQuestionsNull(df.rows[i])])
       IN /\ df' = [ columns |-> df.columns \cup {"recommended_for_removal"},
                     rows |-> rows1 ]
          /\ report' = Record("recommended_removals",
                              CountTrue(rows1, "recommended_for_removal"))
    /\ Done("identify_removals", "create_quality_flags")
    /\ UNCHANGED <<csv, reportText, reportFile, result>>

\* s with x appended when cond holds
AppendIf(s, cond, x) == IF cond THEN Append(s, x) ELSE s

QualityFlags(row) ==
    LET f1 == AppendIf(<<>>, row["recommended_for_removal"], "REMOVE")
        f2 == AppendIf(f1, Get(row, "is_duplicate", FALSE), "DUPLICATE")
        f3 == AppendIf(f2, Get(row, "possible_straightlining", FALSE), "STRAIGHTLINING")
        f4 == AppendIf(f3, Get(row, "suspicious_timing", FALSE), "FAST_RESPONSE")
        f5 == AppendIf(f4, row["missing_all_demographics"], "NO_DEMOGRAPHICS")
        f6 == AppendIf(f5, row["response_quality"] = "Minimal (<50%)", "LOW_COMPLETION")
    IN IF f6 = <<>> THEN <<"CLEAN">> ELSE f6

CreateQualityFlags ==
    /\ cpc = "create_quality_flags"
    /\ df' = [ columns |-> df.columns \cup {"quality_flags"},
               rows |-> WithCol(df.rows, "quality_flags",
                    [i \in DOMAIN df.rows |-> QualityFlags(df.rows[i])]) ]
    /\ Done("create_quality_flags", "generate_report")
    /\ UNCHANGED <<report, csv, reportText, reportFile, result>>

NotRecommended(row) == ~row["recommended_for_removal"]

\* sum of the values of a dict of counts
RECURSIVE SumValues(_)
SumValues(d) ==
    IF DOMAIN d = {} THEN 0
    ELSE LET k == CHOOSE k \in DOMAIN d : TRUE
         IN d[k] + SumValues(Restrict(d, DOMAIN d \ {k}))

\* The keys generate_report reads with cleaning_report[...], which raises
\* KeyError for a key no step recorded.
ReportKeys ==
    { "initial_count", "recommended_removals", "straightlining_count",
      "duplicate_count", "missing_all_demographics", "substantive_open_responses" }

GenerateReport ==
    /\ cpc = "generate_report"
    /\ IF ~(ReportKeys \subseteq DOMAIN report)
       THEN Raise("generate_report", "KeyError")
       ELSE /\ reportText' =
                   [ initial_responses |-> report["initial_count"],
                     final_responses |-> Len(SelectSeq(df.rows, NotRecommended)),
                     flagged_for_removal |-> report["recommended_removals"],
                     out_of_range_corrected |->
                         SumValues(Get(report, "range_issues", <<>>)),
                     possible_straightlining |-> report["straightlining_count"],
                     potential_duplicates |-> report["duplicate_count"],
                     suspicious_timing |-> Get(report, "suspicious_timing", 0),
                     missing_all_demographics |-> report["missing_all_demographics"],
                     substantive_responses |-> report["substantive_open_responses"] ]
            /\ Done("generate_report", "save_cleaned_data")
            /\ UNCHANGED <<df, report, csv, reportFile, result>>

\* df_output of save_cleaned_data, before the temporary column is dropped
OutputRows(rows, remove_flagged) ==
    IF remove_flagged THEN SelectSeq(rows, NotRecommended) ELSE rows

SaveCleanedData ==
    /\ cpc = "save_cleaned_data"
    /\ LET out == OutputRows(df.rows, removeFlagged)
           kept == df.columns \ {"time_diff_seconds"}
       IN csv' = [ columns |-> kept,
                   rows |-> [i \in DOMAIN out |-> Restrict(out[i], kept)] ]
    /\ Done("save_cleaned_data", "save_report")
    /\ UNCHANGED <<df, report, reportText, reportFile, result>>

\* The end of run_full_cleaning: the report file is written, True is returned.
SaveReport ==
    /\ cpc = "save_report"
    /\ reportFile' = TRUE
    /\ result' = "True"
    /\ Done("save_report", "returned")
    /\ UNCHANGED <<df, report, csv, reportText>>

--------------------------------------------------------------------------
(* The survey files the cleaner is run on *)

MaxRows == 3

RowKinds == {"valid", "outrange", "garbage", "blank", "partial"}

\* The answer a row of each kind gives to a required question: in range,
\* one above q4's range, unusable throughout, absent, or a single answer.
Answer(kind, col) ==
    CASE kind = "valid" ->
             IF col = "q1_emotion" THEN Num(1)
             ELSE IF col = "q2_frequency" THEN Num(2) ELSE Num(3)
      [] kind = "outrange" ->
             IF col = "q1_emotion" THEN Num(1)
             ELSE IF col = "q2_frequency" THEN Num(2)
             ELSE IF col = "q4_perceived_impact" THEN Num(5) ELSE Num(3)
      [] kind = "garbage" ->
             IF col = "q1_emotion" THEN Text(1)
             ELSE IF col = "q2_frequency" THEN Num(0) ELSE Num(9)
      [] kind = "partial" ->
             IF col = "q13_incentive" THEN Num(3) ELSE NaN
      [] OTHER -> NaN

TimestampPatterns == {"ascending", "descending", "absent"}

\* created_at of the i-th of n rows: a minute apart in file order, twenty
\* seconds apart in reverse file order, or unparseable.
Timestamp(pattern, i, n) ==
    CASE pattern = "ascending" -> Num(60 * i)
      [] pattern = "descending" -> Num(20 * (n - i + 1))
      [] OTHER -> Text(2)

\* the i-th of n rows of a file, before any column is removed
SurveyRow(kind, pattern, i, n) ==
    [ c \in AllExpected |->
        IF c \in RequiredSet THEN Answer(kind, c)
        ELSE IF c = "id" THEN Num(i)
        ELSE IF c = "created_at" THEN Timestamp(pattern, i, n)
        ELSE IF c = OpenResponseCol
             THEN (IF kind = "valid" THEN Text(1)
                   ELSE IF kind = "partial" THEN Text(0) ELSE NaN)
        ELSE IF kind = "blank" THEN NaN ELSE Text(1) ]

\* The column sets a loaded table may have: every expected column, or all
\* but one of them.
Schemas ==
    { AllExpected } \cup
    { AllExpected \ {c} :
        c \in {"q5_civic_duty", "location", OpenResponseCol, "created_at"} }

\* the rows of a file with at least one data row
KindSeqs == UNION { [1..n -> RowKinds] : n \in 1..MaxRows }

Tables ==
    { [ columns |-> cols,
        rows |-> [i \in DOMAIN kinds |->
                     Restrict(SurveyRow(kinds[i], pattern, i, Len(kinds)), cols)] ] :
        cols \in Schemas, kinds \in KindSeqs, pattern \in TimestampPatterns }

EmptyTable == [ columns |-> {}, rows |-> <<>> ]

\* A file: whether it exists, the loading strategies that raise on it, and
\* the table the first successful strategy yields.
Files ==
    { [ exists |-> FALSE, failing |-> {}, table |-> EmptyTable ],
      [ exists |-> TRUE, failing |-> DOMAIN LoadingMethods, table |-> EmptyTable ] }
    \cup
    { [ exists |-> TRUE, failing |-> failing, table |-> t ] :
        failing \in { {}, {1, 2} }, t \in Tables }

InitClean ==
    /\ cpc = "load_data"
    /\ file \in Files
    /\ removeFlagged \in BOOLEAN
    /\ tried = <<>>
    /\ df = <<>> /\ report = <<>> /\ steps = <<>>
    /\ csv = <<>> /\ reportText = <<>> /\ reportFile = FALSE
    /\ result = "none" /\ cerror = "none"
    /\ VoterIdle /\ GenIdle /\ CliIdle
    /\ SimIdle
    /\ ConvIdle
    /\ ScoreIdle
    /\ ProbIdle
    /\ ExpIdle
    /\ TesterIdle

NextClean ==
    \/ LoadData
    \/ ValidateColumns
    \/ CheckDataTypes
    \/ CheckValueRanges
    \/ AssessCompleteness
    \/ AnalyzeMissingPatterns
    \/ CheckStraightlining
    \/ CleanOpenResponses
    \/ CheckDemographics
    \/ DetectDuplicates
    \/ CheckResponseTiming
    \/ IdentifyRemovals
    \/ CreateQualityFlags
    \/ GenerateReport
    \/ SaveCleanedData
    \/ SaveReport

SpecClean == InitClean /\ [][NextClean]_vars

\* The steps run_full_cleaning calls, in order
CleaningSteps ==
    << "load_data", "validate_columns", "check_data_types", "check_value_ranges",
       "assess_completeness", "analyze_missing_patterns", "check_straightlining",
       "clean_open_responses", "check_demographics", "detect_duplicates",
       "check_response_timing", "identify_removals", "create_quality_flags",
       "generate_report", "save_cleaned_data", "save_report" >>

TypeClean == cpc \in Elements(CleaningSteps) \cup {"returned", "raised", "off"}

--------------------------------------------------------------------------
(* Claims about the cleaning pipeline *)

\* C5: from the load to the end of run_full_cleaning the table holds exactly
\* the loaded rows; a row is recommended for removal exactly when all 13
\* required questions are missing in the cleaned table, which is when every
\* one of its loaded answers was absent, non-numeric or out of range (a row
\* with 12 of 13 missing is not flagged); the written CSV holds every row
\* when remove_flagged is false and exactly the unflagged rows when it is true.
C5_RowsKeptAndRemovedOnlyWhenEmpty ==
    LET loaded == file.table.rows
        id(row) == row["id"][2]
        ids(rows) == { id(rows[i]) : i \in DOMAIN rows }
        unusable(col, cell) ==
            IsNa(cell) \/ IsText(cell) \/ OutOfValidRange(col, cell)
    IN DOMAIN df # {} =>
        /\ Len(df.rows) = Len(loaded)
        /\ ids(df.rows) = DOMAIN loaded
        /\ "recommended_for_removal" \in df.columns =>
              \A i \in DOMAIN df.rows :
                  /\ df.rows[i]["recommended_for_removal"]
                        <=> (MissingCount(df.rows[i]) = NumQuestions)
                  /\ df.rows[i]["recommended_for_removal"]
                        <=> \A c \in RequiredSet :
                                unusable(c, loaded[id(df.rows[i])][c])
        /\ DOMAIN csv # {} =>
              /\ ids(csv.rows) =
                    { id(df.rows[i]) : i \in
                        { k \in DOMAIN df.rows :
                            ~removeFlagged \/ ~df.rows[k]["recommended_for_removal"] } }
              /\ Len(csv.rows) = Cardinality(ids(csv.rows))

C5_Witness ==
    /\ DOMAIN csv # {}
    /\ removeFlagged
    /\ \E i, j \in DOMAIN df.rows :
          /\ MissingCount(df.rows[i]) = NumQuestions - 1
          /\ ~df.rows[i]["recommended_for_removal"]
          /\ \E k \in DOMAIN csv.rows : csv.rows[k]["id"] = df.rows[i]["id"]
          /\ df.rows[j]["recommended_for_removal"]
          /\ \A k \in DOMAIN csv.rows : csv.rows[k]["id"] # df.rows[j]["id"]

\* C6 as stated: of any two loaded rows with identical values on all 13
\* required questions the later is flagged is_duplicate and the earlier is
\* not, and both are in the written CSV whatever remove_flagged is.
C6_LaterFlaggedBothKept ==
    LET loaded == file.table.rows
        flag(k) == (CHOOSE i \in DOMAIN df.rows : df.rows[i]["id"] = Num(k))
        inCsv(k) == \E i \in DOMAIN csv.rows : csv.rows[i]["id"] = Num(k)
    IN (DOMAIN df # {} /\ "is_duplicate" \in df.columns) =>
        \A e, l \in DOMAIN loaded :
            (e < l /\ \A c \in RequiredSet : loaded[e][c] = loaded[l][c]) =>
                /\ df.rows[flag(l)]["is_duplicate"]
                /\ ~df.rows[flag(e)]["is_duplicate"]
                /\ DOMAIN csv # {} => inCsv(e) /\ inCsv(l)

\* C6 amended: a row is flagged is_duplicate exactly when a row earlier in
\* the file has the same cleaned values on all 13 required questions, so of
\* two such rows the later is always flagged and the first row with those
\* values never is; and two such rows are both in the written CSV except
\* when remove_flagged is true and all 13 values are missing, when neither is.
C6_FlaggedIffEarlierRowAgrees ==
    LET id(row) == row["id"][2]
        agree(r1, r2) == \A c \in RequiredSet : r1[c] = r2[c]
        inCsv(row) == \E i \in DOMAIN csv.rows : csv.rows[i]["id"] = row["id"]
    IN (DOMAIN df # {} /\ "is_duplicate" \in df.columns) =>
        /\ \A i \in DOMAIN df.rows :
              df.rows[i]["is_duplicate"] <=>
                  \E j \in DOMAIN df.rows :
                      id(df.rows[j]) < id(df.rows[i]) /\ agree(df.rows[j], df.rows[i])
        /\ DOMAIN csv # {} =>
              \A i, j \in DOMAIN df.rows :
                  (i # j /\ agree(df.rows[i], df.rows[j])) =>
                      IF removeFlagged /\ MissingCount(df.rows[i]) = NumQuestions
                      THEN ~inCsv(df.rows[i]) /\ ~inCsv(df.rows[j])
                      ELSE inCsv(df.rows[i]) /\ inCsv(df.rows[j])

C6_Witness ==
    /\ DOMAIN csv # {}
    /\ removeFlagged
    /\ \E i, j, k \in DOMAIN df.rows :
          /\ df.rows[i]["id"] = Num(1) /\ ~df.rows[i]["is_duplicate"]
          /\ df.rows[j]["id"] = Num(2) /\ df.rows[j]["is_duplicate"]
          /\ df.rows[k]["id"] = Num(3) /\ df.rows[k]["is_duplicate"]
          /\ MissingCount(df.rows[i]) = NumQuestions
          /\ \A c \in RequiredSet : df.rows[i][c] = df.rows[j][c]
          /\ \A c \in RequiredSet : df.rows[j][c] = df.rows[k][c]
    /\ csv.rows = <<>>

\* C7: once load_data has loaded a table, whatever columns it has,
\* run_full_cleaning runs every step in order, writes the CSV and the report
\* file and returns True; it returns False only when the load failed, and it
\* never raises.
C7_SucceedsOnEveryLoadedTable ==
    /\ cpc # "raised"
    /\ cpc = "returned" =>
          IF ~file.exists \/ FirstSuccess(file) = 0
          THEN result = "False"
          ELSE /\ result = "True"
               /\ steps = CleaningSteps
               /\ DOMAIN csv # {}
               /\ reportFile

\* load_data has returned failure: run_full_cleaning stopped after it.
LoadFailed == steps = <<"load_data">> /\ cpc = "returned"

\* The part of C13 that does not depend on how a failure comes about: the
\* strategies are tried in priority order, each one tried before the last
\* raised, and on success the last one tried did not raise and its name and
\* the row count are in the report; on failure nothing is recorded.
TriedInOrderAndRecorded ==
    /\ tried = SubSeq(LoadingMethods, 1, Len(tried))
    /\ Len(tried) >= 1
    /\ \A i \in 1..(Len(tried) - 1) : file.exists /\ i \in file.failing
    /\ ~LoadFailed =>
          /\ file.exists /\ Len(tried) \notin file.failing
          /\ "loading_method" \in DOMAIN report
          /\ report["loading_method"] = LoadingMethods[Len(tried)]
          /\ "initial_count" \in DOMAIN report
          /\ report["initial_count"] = Len(file.table.rows)
    /\ LoadFailed =>
          /\ result = "False"
          /\ df = <<>>
          /\ "initial_count" \notin DOMAIN report
          /\ "loading_method" \notin DOMAIN report

\* C13: load_data tries its eight strategies in priority order and stops at
\* the first that does not raise, recording its name and the row count; it
\* returns failure only after all eight have been attempted and have raised,
\* and then records no table and no initial_count / loading_method.
C13_FailureOnlyAfterAllEight ==
    steps # <<>> =>
        /\ TriedInOrderAndRecorded
        /\ LoadFailed =>
              /\ tried = LoadingMethods
              /\ \A i \in DOMAIN LoadingMethods : file.exists /\ i \in file.failing

\* C13, amended: as above, except that failure is returned either after all
\* eight strategies have raised or at once, after the first strategy alone,
\* when the file does not exist.
C13_FailureAfterAllEightOrMissingFile ==
    steps # <<>> =>
        /\ TriedInOrderAndRecorded
        /\ LoadFailed =>
              \/ ~file.exists /\ Len(tried) = 1
              \/ /\ tried = LoadingMethods
                 /\ \A i \in DOMAIN LoadingMethods : file.exists /\ i \in file.failing

\* load_data succeeded with its third strategy after the first two raised.
C13_Witness ==
    /\ steps = <<"load_data">>
    /\ Len(tried) = 3
    /\ file.failing = {1, 2}
    /\ report["loading_method"] = "Semicolon delimiter"

\* C16: check_value_ranges overwrites with missing exactly the non-missing
\* cells of required question columns that lie outside the column's range
\* ([1,4] for q4_perceived_impact, [1,5] for the others), leaves every other
\* cell and column as it was, keeps every row, and records for a column
\* with such cells a range_issues count equal to the number overwritten.
C16_ExactlyOutOfRangeCellsOverwritten ==
    [][ cpc = "check_value_ranges" =>
          /\ df'.columns = df.columns
          /\ DOMAIN df'.rows = DOMAIN df.rows
          /\ \A i \in DOMAIN df.rows : \A c \in df.columns :
                LET v == df.rows[i][c]
                    outside ==
                        /\ c \in RequiredSet
                        /\ v[1] = "num"
                        /\ \/ v[2] < 1
                           \/ v[2] > (IF c = "q4_perceived_impact" THEN 4 ELSE 5)
                IN df'.rows[i][c] = IF outside THEN NaN ELSE v
          /\ \A c \in RequiredSet \cap df.columns :
                LET overwritten ==
                        { i \in DOMAIN df.rows : df'.rows[i][c] # df.rows[i][c] }
                IN overwritten # {} =>
                      /\ c \in DOMAIN report'["range_issues"]
                      /\ report'["range_issues"][c] = Cardinality(overwritten) ]_vars

\* check_value_ranges has overwritten a 5 in q4_perceived_impact and kept a 3
\* in q5_civic_duty of the same row.
C16_Witness ==
    /\ cpc = "assess_completeness"
    /\ "q4_perceived_impact" \in DOMAIN report["range_issues"]
    /\ \E i \in DOMAIN df.rows :
          /\ file.table.rows[i]["q4_perceived_impact"] = Num(5)
          /\ df.rows[i]["q4_perceived_impact"] = NaN
          /\ df.rows[i]["q5_civic_duty"] = Num(3)

--------------------------------------------------------------------------
(* The command line: main.py *)

Modes == {"baseline", "calibrate", "nudges", "hypotheses", "all"}

\* the default of --scenario and of --calibration-scenario
ScenarioArg == "Thiruvananthapuram, Kerala (2019)"

\* the default of --validation-scenario
ValidationScenarioArg == "Shravasti, Uttar Pradesh (2019)"

\* Vectors the optimizer may return, inside calibrate's bounds: the lower
\* ends, the upper ends, the defaults, and interior values.
CalibratedArrays ==
    { << SCALE \div 100, HALF, 0, 0, 0, -HALF >>,
      << HALF, 4 * SCALE, HALF, HALF, HALF, 0 >>,
      << DDMParameters.drift_rate_base, DDMParameters.threshold_base,
         DDMParameters.beta_D, DDMParameters.beta_H, DDMParameters.beta_S,
         DDMParameters.beta_C >>,
      << 2500, SCALE, 100, 200, 300, -400 >> }

\* Order: [drift_base, threshold_base, beta_D, beta_H, beta_S, beta_C]
ArrayToParams(params_array) ==
    [ DDMParameters EXCEPT !.drift_rate_base = params_array[1],
                           !.threshold_base = params_array[2],
                           !.beta_D = params_array[3],
                           !.beta_H = params_array[4],
                           !.beta_S = params_array[5],
                           !.beta_C = params_array[6] ]

\* params_dict of save_parameters
SaveParameters(p) ==
    [ drift_rate_base |-> p.drift_rate_base,
      threshold_base |-> p.threshold_base,
      sigma_base |-> p.sigma_base,
      drift_components |->
          [ beta_D |-> p.beta_D, beta_PI |-> p.beta_PI, beta_IS |-> p.beta_IS,
            beta_S |-> p.beta_S, beta_H |-> p.beta_H, beta_C |-> p.beta_C,
            beta_EC |-> p.beta_EC, beta_OC |-> p.beta_OC ],
      threshold_modifiers |->
          [ gamma_risk |-> p.gamma_risk, gamma_edu |-> p.gamma_edu,
            gamma_OC |-> p.gamma_OC ],
      starting_point_biases |->
          [ alpha_H |-> p.alpha_H, alpha_PI |-> p.alpha_PI, alpha_D |-> p.alpha_D ] ]

\* calibrator_results['parameters'] of run_calibration
CalibratorResults(p) ==
    [ parameters |->
        [ drift_rate_base |-> p.drift_rate_base, threshold_base |-> p.threshold_base,
          beta_D |-> p.beta_D, beta_H |-> p.beta_H, beta_S |-> p.beta_S,
          beta_C |-> p.beta_C ] ]

\* The section with one fitted coefficient left out of drift_components.
CalibratedSectionWithoutBetaC(p) ==
    [ drift_rate_base |-> p.drift_rate_base,
      threshold_base |-> p.threshold_base,
      drift_components |->
          [ beta_D |-> p.beta_D, beta_H |-> p.beta_H, beta_S |-> p.beta_S ] ]

\* The dict main assigns to config[...]['drift_diffusion_model'] in mode 'all'
CalibratedSection(p) ==
    [ drift_rate_base |-> p.drift_rate_base,
      threshold_base |-> p.threshold_base,
      drift_components |->
          [ beta_D |-> p.beta_D, beta_H |-> p.beta_H, beta_S |-> p.beta_S,
            beta_C |-> p.beta_C ] ]

\* config after the assignment: the whole drift_diffusion_model value is
\* replaced; every other key of config is left as loaded.
UpdatedConfig(cfg, p) ==
    [ cfg EXCEPT !["model_calibration_parameters"] =
        Update(@, "drift_diffusion_model" :> CalibratedSection(p)) ]

LoadDDMParametersFromConfig(cfg) ==
    LET ddm_config ==
            Get(Get(cfg, "model_calibration_parameters", <<>>),
                "drift_diffusion_model", <<>>)
        drift_components == Get(ddm_config, "drift_components", <<>>)
        d == DDMParameters
    IN [ d EXCEPT !.beta_D = Get(drift_components, "beta_D", d.beta_D),
                  !.beta_H = Get(drift_components, "beta_H", d.beta_H),
                  !.beta_S = Get(drift_components, "beta_S", d.beta_S),
                  !.beta_C = Get(drift_components, "beta_C", d.beta_C),
                  !.drift_rate_base = Get(ddm_config, "drift_rate_base", d.drift_rate_base),
                  !.threshold_base = Get(ddm_config, "threshold_base", d.threshold_base) ]

--------------------------------------------------------------------------
(* The configuration documents main is run on *)

\* A drift_diffusion_model section with every key the model core has a
\* coefficient for that appears here; its values differ from the defaults.
FullSection ==
    [ drift_rate_base |-> 1200, threshold_base |-> 18000, sigma_base |-> 2500,
      drift_components |->
          [ beta_D |-> 1600, beta_H |-> 1700, beta_S |-> 1900, beta_C |-> -1300,
            beta_EC |-> 900 ] ]

FittedComponents == {"beta_D", "beta_H", "beta_S", "beta_C"}

Sections ==
    { Restrict([FullSection EXCEPT !.drift_components = Restrict(@, comps)], keys) :
        keys \in { {"drift_rate_base"},
                   {"drift_rate_base", "threshold_base", "drift_components"},
                   DOMAIN FullSection },
        comps \in { FittedComponents, FittedComponents \cup {"beta_EC"} } }

FullConfig(section, names) ==
    [ feature_definitions |-> "feature_definitions",
      simulation_scenarios |-> names,
      model_calibration_parameters |->
          [ drift_diffusion_model |-> section, utility_model |-> "utility_model" ] ]

\* Documents with the section, without it, and without
\* model_calibration_parameters; simulation_scenarios is reduced to the
\* scenario names it holds.
Configs ==
    LET full == { FullConfig(section, names) :
                    section \in Sections,
                    names \in SUBSET {ScenarioArg, ValidationScenarioArg} }
    IN full
       \cup { [c EXCEPT !["model_calibration_parameters"] =
                  Restrict(@, {"utility_model"})] : c \in full }
       \cup { Restrict(c, DOMAIN c \ {"model_calibration_parameters"}) : c \in full }

--------------------------------------------------------------------------
(* main and the run_* functions *)

\* load_config(config_path)
LoadConfig == IF configPath = "args.config" THEN config ELSE files[configPath]

\* the stage main runs after stage
NextStage(stage) ==
    IF mode # "all" THEN "done"
    ELSE CASE stage = "calibration" -> "update_config"
           [] stage = "update_config" -> "baseline"
           [] stage = "baseline" -> "nudges"
           [] stage = "nudges" -> "hypotheses"
           [] OTHER -> "done"

\* the stage main starts with
FirstStage(m) ==
    CASE m = "baseline" -> "baseline"
      [] m = "nudges" -> "nudges"
      [] m = "hypotheses" -> "hypotheses"
      [] OTHER -> "calibration"

\* An exception nothing catches ends main.
Crash(error) == mpc' = "raised" /\ merror' = error

\* DDMSimulation.__init__ and DDMCalibrator.__init__ find the scenario by name
Found(cfg, name) == name \in cfg["simulation_scenarios"]

RunCalibration ==
    /\ mpc = "calibration"
    /\ IF ~Found(config, ScenarioArg)
       THEN /\ Crash("ValueError: Scenario not found")
            /\ UNCHANGED <<optimal, files, artifacts>>
       ELSE \E x \in CalibratedArrays :
              LET optimal_params == ArrayToParams(x)
                  saved == Update(files, "calibrated_params.json" :>
                                             SaveParameters(optimal_params))
              IN IF ~Found(config, ValidationScenarioArg)
                 THEN /\ Crash("ValueError: Validation scenario not found")
                      /\ files' = saved
                      /\ artifacts' = Append(artifacts, "calibrated_params.json")
                      /\ UNCHANGED optimal
                 ELSE /\ optimal' = optimal_params
                      /\ files' = Update(saved, "calibration_results.json" :>
                                                    CalibratorResults(optimal_params))
                      /\ artifacts' = artifacts \o
                             <<"calibrated_params.json", "calibration_results.json">>
                      /\ mpc' = NextStage("calibration")
                      /\ UNCHANGED merror
    /\ UNCHANGED <<mode, config, configPath, loadedParams, attempted, all_results,
                   voterVars, genVars, cleanVars, simVars, convVars, scoreVars, probVars, expVars, testerVars>>

\* Mode 'all', step 2: write the configuration the later stages read.
UpdateConfig ==
    /\ mpc = "update_config"
    /\ IF "model_calibration_parameters" \notin DOMAIN config
       THEN /\ Crash("KeyError: 'model_calibration_parameters'")
            /\ UNCHANGED <<configPath, files, artifacts>>
       ELSE /\ files' = Update(files, "calibrated_config.json" :>
                                          UpdatedConfig(config, optimal))
            /\ artifacts' = Append(artifacts, "calibrated_config.json")
            /\ configPath' = "calibrated_config.json"
            /\ mpc' = NextStage("update_config")
            /\ UNCHANGED merror
    /\ UNCHANGED <<mode, config, optimal, loadedParams, attempted, all_results,
                   voterVars, genVars, cleanVars, simVars, convVars, scoreVars, probVars, expVars, testerVars>>

\* self.ddm_params of the DDMSimulation a stage builds
Simulation(stage, cfg) ==
    [ stage |-> stage, params |-> LoadDDMParametersFromConfig(cfg) ]

BaselineArtifacts == <<"baseline_<scenario>.json", "population_dist_<scenario>.png">>

RunBaselineSimulation ==
    /\ mpc = "baseline"
    /\ IF ~Found(LoadConfig, ScenarioArg)
       THEN /\ Crash("ValueError: Scenario not found")
            /\ UNCHANGED <<files, artifacts, loadedParams>>
       ELSE /\ loadedParams' = Append(loadedParams, Simulation("baseline", LoadConfig))
            /\ files' = Update(files, [n \in Elements(BaselineArtifacts) |-> "baseline"])
            /\ artifacts' = artifacts \o BaselineArtifacts
            /\ mpc' = NextStage("baseline")
            /\ UNCHANGED merror
    /\ UNCHANGED <<mode, config, configPath, optimal, attempted, all_results,
                   voterVars, genVars, cleanVars, simVars, convVars, scoreVars, probVars, expVars, testerVars>>

NudgeArtifacts ==
    << "nudge_monetary.png", "nudge_social_norm.png", "nudge_identity.png",
       "nudge_competitiveness.png", "nudge_experiments.json" >>

RunNudgeExperiments ==
    /\ mpc = "nudges"
    /\ IF ~Found(LoadConfig, ScenarioArg)
       THEN /\ Crash("ValueError: Scenario not found")
            /\ UNCHANGED <<files, artifacts, loadedParams>>
       ELSE /\ loadedParams' = Append(loadedParams, Simulation("nudges", LoadConfig))
            /\ files' = Update(files, [n \in Elements(NudgeArtifacts) |-> "nudges"])
            /\ artifacts' = artifacts \o NudgeArtifacts
            /\ mpc' = NextStage("nudges")
            /\ UNCHANGED merror
    /\ UNCHANGED <<mode, config, configPath, optimal, attempted, all_results,
                   voterVars, genVars, cleanVars, simVars, convVars, scoreVars, probVars, expVars, testerVars>>

--------------------------------------------------------------------------
(* run_hypothesis_tests *)

Hypotheses == <<"HN1", "HN2", "HN3", "HN6">>

\* the hypotheses whose test_type is 'stratified'
Stratified == {"HN1", "HN3", "HN6"}

\* The labels a stratified result may carry: no description contains 'HN1'
\* or 'HN3', so _test_stratified_effect always takes its else branch.
StratumLabels == {"Low", "High"}

ComparisonKeys == {"control", "social_norm", "competitiveness", "winner"}

\* What sim.run_hypothesis_test(h_name) may do: raise, or return a dict with
\* these keys (a stratified result has a key for each non-empty stratum).
TestOutcomes(h_name) ==
    { [raises |-> TRUE, keys |-> {}] } \cup
    IF h_name \in Stratified
    THEN { [raises |-> FALSE, keys |-> K] : K \in SUBSET StratumLabels }
    ELSE { [raises |-> FALSE, keys |-> ComparisonKeys] }

\* An entry of all_results: the keys of the dict and, for an error entry,
\* the message under 'error'.
ResultEntry(keys) == [keys |-> keys, message |-> ""]

ErrorEntry(message) == [keys |-> {"error"}, message |-> message]

\* A handler that drops the failed hypothesis instead of recording it.
RecordFailureDropped(results, h_name, message) == results

\* except Exception as e: all_results[h_name] = {'error': str(e)}
RecordFailure(results, h_name, message) ==
    Update(results, h_name :> ErrorEntry(message))

\* config = load_config(config_path); sim = DDMSimulation(config, scenario)
HypothesisSetup ==
    /\ mpc = "hypotheses"
    /\ IF ~Found(LoadConfig, ScenarioArg)
       THEN /\ Crash("ValueError: Scenario not found")
            /\ UNCHANGED loadedParams
       ELSE /\ loadedParams' = Append(loadedParams, Simulation("hypotheses", LoadConfig))
            /\ mpc' = "hypothesis_loop"
            /\ UNCHANGED merror
    /\ UNCHANGED <<mode, config, configPath, optimal, files, artifacts, attempted,
                   all_results, voterVars, genVars, cleanVars, simVars, convVars, scoreVars, probVars, expVars, testerVars>>

\* One iteration of the for loop: the test, then the chart of a result that
\* has a 'Low' key; an exception of either is caught and recorded.
TestHypothesis ==
    /\ mpc = "hypothesis_loop"
    /\ Len(attempted) < Len(Hypotheses)
    /\ LET h_name == Hypotheses[Len(attempted) + 1]
           chart == "hypothesis_" \o h_name \o ".png"
       IN \E outcome \in TestOutcomes(h_name), plotRaises \in BOOLEAN :
            /\ plotRaises => ~outcome.raises /\ "Low" \in outcome.keys
            /\ attempted' = Append(attempted,
                   [name |-> h_name, raised |-> outcome.raises \/ plotRaises])
            /\ IF outcome.raises
               THEN /\ all_results' = RecordFailure(all_results, h_name, "test")
                    /\ UNCHANGED <<files, artifacts>>
               ELSE IF plotRaises
               THEN /\ all_results' =
                          RecordFailure(
                              Update(all_results, h_name :> ResultEntry(outcome.keys)),
                              h_name, "plot")
                    /\ UNCHANGED <<files, artifacts>>
               ELSE IF "Low" \in outcome.keys
               THEN /\ all_results' =
                          Update(all_results, h_name :> ResultEntry(outcome.keys))
                    /\ files' = Update(files, chart :> "chart")
                    /\ artifacts' = Append(artifacts, chart)
               ELSE /\ all_results' =
                          Update(all_results, h_name :> ResultEntry(outcome.keys))
                    /\ UNCHANGED <<files, artifacts>>
    /\ UNCHANGED <<mpc, mode, config, configPath, optimal, loadedParams, merror,
                   voterVars, genVars, cleanVars, simVars, convVars, scoreVars, probVars, expVars, testerVars>>

\* After the loop: json.dump(convert(all_results)); floats, ints and strings
\* are written as they are.
ExportHypotheses ==
    /\ mpc = "hypothesis_loop"
    /\ Len(attempted) = Len(Hypotheses)
    /\ files' = Update(files, "hypothesis_tests.json" :> all_results)
    /\ artifacts' = Append(artifacts, "hypothesis_tests.json")
    /\ mpc' = NextStage("hypotheses")
    /\ UNCHANGED <<mode, config, configPath, optimal, loadedParams, attempted,
                   all_results, merror, voterVars, genVars, cleanVars, simVars, convVars, scoreVars, probVars, expVars, testerVars>>

InitCli ==
    /\ mode \in Modes
    /\ config \in Configs
    /\ mpc = FirstStage(mode)
    /\ configPath = "args.config"
    /\ optimal = <<>> /\ files = <<>> /\ artifacts = <<>> /\ loadedParams = <<>>
    /\ attempted = <<>> /\ all_results = <<>> /\ merror = "none"
    /\ VoterIdle /\ GenIdle /\ CleanIdle
    /\ SimIdle
    /\ ConvIdle
    /\ ScoreIdle
    /\ ProbIdle
    /\ ExpIdle
    /\ TesterIdle

NextCli ==
    \/ RunCalibration
    \/ UpdateConfig
    \/ RunBaselineSimulation
    \/ RunNudgeExperiments
    \/ HypothesisSetup
    \/ TestHypothesis
    \/ ExportHypotheses

SpecCli == InitCli /\ [][NextCli]_vars

--------------------------------------------------------------------------
(* Claims about the command line *)

\* C8: in mode 'all' the files are written in the order calibrated_params.json,
\* (calibration_results.json,) calibrated_config.json, the baseline files, the
\* nudge files, the hypothesis files; the baseline, nudge and hypothesis stages
\* read calibrated_config.json, and the parameters each loads from it equal the
\* parameters calibration returned in every field of DDMParameters.
C8_CalibratedBeforeUseAndLoadedEqual ==
    mode = "all" =>
        LET rank(name) ==
                CASE name = "calibrated_params.json" -> 1
                  [] name = "calibration_results.json" -> 2
                  [] name = "calibrated_config.json" -> 3
                  [] name \in {"baseline_<scenario>.json",
                               "population_dist_<scenario>.png"} -> 4
                  [] name \in {"nudge_monetary.png", "nudge_social_norm.png",
                               "nudge_identity.png", "nudge_competitiveness.png",
                               "nudge_experiments.json"} -> 5
                  [] OTHER -> 6
            stages == <<"baseline", "nudges", "hypotheses">>
        IN /\ \A i, j \in DOMAIN artifacts :
                  i < j => rank(artifacts[i]) <= rank(artifacts[j])
           /\ \A i \in DOMAIN artifacts :
                  rank(artifacts[i]) > 3 =>
                      \E j, k \in 1..(i - 1) :
                          /\ j < k
                          /\ artifacts[j] = "calibrated_params.json"
                          /\ artifacts[k] = "calibrated_config.json"
           /\ \A i \in DOMAIN loadedParams :
                  /\ loadedParams[i].stage = stages[i]
                  /\ configPath = "calibrated_config.json"
                  /\ DOMAIN loadedParams[i].params = DOMAIN DDMParameters
                  /\ \A field \in DOMAIN DDMParameters :
                         loadedParams[i].params[field] = optimal[field]
           /\ mpc = "done" =>
                  /\ Len(loadedParams) = 3
                  /\ \A name \in {"calibrated_params.json", "calibrated_config.json",
                                  "baseline_<scenario>.json", "nudge_experiments.json",
                                  "hypothesis_tests.json"} :
                         \E i \in DOMAIN artifacts : artifacts[i] = name

C8_Witness ==
    /\ mode = "all"
    /\ mpc = "done"
    /\ Len(loadedParams) = 3
    /\ \A field \in {"drift_rate_base", "threshold_base", "beta_D", "beta_H",
                     "beta_S", "beta_C"} :
          /\ optimal[field] # DDMParameters[field]
          /\ loadedParams[1].params[field] = optimal[field]
    /\ "sigma_base" \in
          DOMAIN Get(config["model_calibration_parameters"], "drift_diffusion_model", <<>>)

\* C9: in mode 'all', calibrated_config.json holds every key of the input
\* configuration, at every level, with its original value, except the six
\* fitted coefficients, which hold the calibrated values.
C9_OtherKeysPreserved ==
    (mode = "all" /\ "calibrated_config.json" \in DOMAIN files) =>
        LET out == files["calibrated_config.json"]
            mcp == "model_calibration_parameters"
            ddm == "drift_diffusion_model"
            dc == "drift_components"
            kept(old, new, except) ==
                \A k \in DOMAIN old \ except : k \in DOMAIN new /\ new[k] = old[k]
            oldSection == Get(config[mcp], ddm, <<>>)
            newSection == out[mcp][ddm]
        IN /\ kept(config, out, {mcp})
           /\ kept(config[mcp], out[mcp], {ddm})
           /\ kept(oldSection, newSection, {"drift_rate_base", "threshold_base", dc})
           /\ kept(Get(oldSection, dc, <<>>), newSection[dc],
                   {"beta_D", "beta_H", "beta_S", "beta_C"})
           /\ newSection["drift_rate_base"] = optimal.drift_rate_base
           /\ newSection["threshold_base"] = optimal.threshold_base
           /\ \A b \in {"beta_D", "beta_H", "beta_S", "beta_C"} :
                  newSection[dc][b] = optimal[b]

\* C10: in mode 'hypotheses' the hypotheses are attempted in the order HN1,
\* HN2, HN3, HN6; one that raised has an {error: message} entry and the
\* others their result; no exception of a hypothesis ends the run; and the
\* written hypothesis_tests.json has exactly one entry for each of the four.
C10_EveryHypothesisAttemptedAndRecorded ==
    mode = "hypotheses" =>
        LET names == <<"HN1", "HN2", "HN3", "HN6">>
        IN /\ Len(attempted) <= 4
           /\ \A i \in DOMAIN attempted :
                  /\ attempted[i].name = names[i]
                  /\ attempted[i].name \in DOMAIN all_results
                  /\ attempted[i].raised <=>
                         (all_results[attempted[i].name].keys = {"error"})
           /\ DOMAIN all_results = { attempted[i].name : i \in DOMAIN attempted }
           /\ mpc = "raised" => attempted = <<>>
           /\ mpc = "done" => "hypothesis_tests.json" \in DOMAIN files
           /\ "hypothesis_tests.json" \in DOMAIN files =>
                  /\ Len(attempted) = 4
                  /\ DOMAIN files["hypothesis_tests.json"] = {"HN1", "HN2", "HN3", "HN6"}
                  /\ \A h \in {"HN1", "HN2", "HN3", "HN6"} :
                         files["hypothesis_tests.json"][h] = all_results[h]

C10_Witness ==
    /\ mode = "hypotheses"
    /\ "hypothesis_tests.json" \in DOMAIN files
    /\ attempted[1].raised /\ attempted[2].raised
    /\ ~attempted[3].raised /\ ~attempted[4].raised
    /\ all_results["HN1"].keys = {"error"}
    /\ all_results["HN6"].keys = {"Low", "High"}

--------------------------------------------------------------------------
(* binary64 arithmetic for the elapsed time t of simulate_decision *)

\* A binary64 number in [0, 4) that is a multiple of 2^-56 is held exactly as
\* <<hi, lo>>, standing for (hi * 2^28 + lo) * 2^-56, with 0 <= lo < 2^28.
LIMB == 2^28

\* bits of a binary64 significand
SIGNIFICAND == 53

RECURSIVE BitLength(_)
BitLength(n) == IF n = 0 THEN 0 ELSE 1 + BitLength(n \div 2)

BigBitLength(x) == IF x[1] > 0 THEN 28 + BitLength(x[1]) ELSE BitLength(x[2])

\* the exact sum
BigAdd(x, y) ==
    << x[1] + y[1] + (x[2] + y[2]) \div LIMB, (x[2] + y[2]) % LIMB >>

BigLess(x, y) == x[1] < y[1] \/ (x[1] = y[1] /\ x[2] < y[2])

\* Round to 53 significant bits, to nearest, ties to even.
RoundToDouble(x) ==
    LET excess == BigBitLength(x) - SIGNIFICAND
    IN IF excess <= 0 THEN x
       ELSE LET q == 2^excess
                r == x[2] % q
                down == << x[1], x[2] - r >>
                odd == (x[2] \div q) % 2 = 1
            IN IF 2 * r > q \/ (2 * r = q /\ odd)
               THEN BigAdd(down, <<0, q>>)
               ELSE down

\* t += dt
FloatAdd(x, y) == RoundToDouble(BigAdd(x, y))

--------------------------------------------------------------------------
(* DDMVoter.simulate_decision *)

\* dt arguments: the value in SCALE units, used for X, and the binary64
\* number itself, used for t: 0.1 = 0x1.999999999999ap-4, 0.25, 0.5.
TimeSteps ==
    { [fixed |-> SCALE \div 10, double |-> <<26843545, 161061274>>],
      [fixed |-> SCALE \div 4, double |-> <<2^26, 0>>],
      [fixed |-> HALF, double |-> <<2^27, 0>>] }

\* max_time arguments: 1.0 and 0.5
MaxTimes ==
    { [fixed |-> SCALE, double |-> <<2^28, 0>>],
      [fixed |-> HALF, double |-> <<2^27, 0>>] }

IntegrationMethods == {"euler", "exact"}

\* Values of the draw np.random.normal(0, sqrt(dt)), in SCALE units
NoiseIncrements == { -3 * SCALE, 0, 3 * SCALE }

\* The voters simulate_decision is run on
SimFeatures ==
    { f \in FullRecords :
        /\ f["social_pressure_sensitivity"] = 0 /\ f["risk_aversion"] = 0
        /\ f["education_normalized"] = 0 /\ f["overconfidence"] = 0 }

SimParams == { DDMParameters, [DDMParameters EXCEPT !.threshold_base = HALF] }

\* X = self.z; t = 0
SimulateCall ==
    /\ spc = "call"
    /\ dtArg' \in TimeSteps
    /\ maxTime' \in MaxTimes
    /\ simMethod' \in IntegrationMethods \cup {"unknown"}
    /\ X' = z
    /\ tSim' = <<0, 0>>
    /\ spc' = "loop"
    /\ UNCHANGED <<nsteps, last, ret, voterVars, genVars, cleanVars, cliVars, convVars, scoreVars, probVars, expVars, testerVars>>

\* One iteration of `while t < max_time`: the increment, t += dt, then the
\* boundary checks.
SimulateStep ==
    /\ spc = "loop"
    /\ BigLess(tSim, maxTime.double)
    /\ IF simMethod \notin IntegrationMethods
       THEN /\ spc' = "raised"
            /\ UNCHANGED <<X, tSim, nsteps, last, ret>>
       ELSE \E dW \in NoiseIncrements :
              LET dX == Mul(mu, dtArg.fixed) + Mul(sigma, dW)
                  t1 == FloatAdd(tSim, dtArg.double)
              IN /\ X' = X + dX
                 /\ tSim' = t1
                 /\ nsteps' = nsteps + 1
                 /\ IF X + dX >= a
                    THEN /\ last' = <<1, t1>> /\ ret' = <<1, t1>>
                         /\ spc' = "returned"
                    ELSE IF X + dX <= 0
                    THEN /\ last' = <<0, t1>> /\ ret' = <<0, t1>>
                         /\ spc' = "returned"
                    ELSE UNCHANGED <<last, ret, spc>>
    /\ UNCHANGED <<dtArg, maxTime, simMethod, voterVars, genVars, cleanVars, cliVars, convVars, scoreVars, probVars, expVars, testerVars>>

\* Time limit reached: decision = int(X > self.a / 2)
SimulateTimeout ==
    /\ spc = "loop"
    /\ ~BigLess(tSim, maxTime.double)
    /\ LET decision == IF 2 * X > a THEN 1 ELSE 0
       IN /\ last' = <<decision, maxTime.double>>
          /\ ret' = <<decision, maxTime.double>>
    /\ spc' = "returned"
    /\ UNCHANGED <<dtArg, maxTime, simMethod, X, tSim, nsteps, voterVars, genVars,
                   cleanVars, cliVars, convVars, scoreVars, probVars, expVars, testerVars>>

InitSim ==
    /\ vpc = "voter"
    /\ features \in SimFeatures
    /\ params \in SimParams
    /\ mu = ComputeDriftRate(features, params)
    /\ a = ComputeThreshold(features, params)
    /\ z = ComputeStartingPoint(features, params, a)
    /\ sigma = ComputeDiffusion(features, params)
    /\ nNudges = 0 /\ raised = "none" /\ named = {} /\ warned = {}
    /\ spc = "call" /\ dtArg = <<>> /\ maxTime = <<>> /\ simMethod = "none"
    /\ X = 0 /\ tSim = <<>> /\ nsteps = 0 /\ last = <<>> /\ ret = <<>>
    /\ GenIdle /\ CleanIdle /\ CliIdle
    /\ ConvIdle
    /\ ScoreIdle
    /\ ProbIdle
    /\ ExpIdle
    /\ TesterIdle

NextSim == SimulateCall \/ SimulateStep \/ SimulateTimeout

SpecSim == InitSim /\ [][NextSim]_vars

\* C11: simulate_decision runs at most ceil(max_time/dt) iterations; it
\* returns (1, t) at the first step with X >= a, (0, t) at the first with
\* X <= 0, and (1 if X > a/2 else 0, max_time) when the time is up;
\* last_decision and last_decision_time are the returned pair; mu, a, z and
\* sigma stay as constructed.
C11_AtMostCeilStepsFirstHitReturned ==
    spc \in {"loop", "returned"} =>
        /\ nsteps <= (maxTime.fixed + dtArg.fixed - 1) \div dtArg.fixed
        /\ mu = ComputeDriftRate(features, params)
        /\ a = ComputeThreshold(features, params)
        /\ z = ComputeStartingPoint(features, params, a)
        /\ sigma = ComputeDiffusion(features, params)
        /\ spc = "loop" => (0 < X /\ X < a /\ last = <<>> /\ ret = <<>>)
        /\ spc = "returned" =>
              /\ last = ret
              /\ \/ X >= a /\ ret = <<1, tSim>>
                 \/ X <= 0 /\ ret = <<0, tSim>>
                 \/ /\ 0 < X /\ X < a
                    /\ ~BigLess(tSim, maxTime.double)
                    /\ ret = <<IF 2 * X > a THEN 1 ELSE 0, maxTime.double>>

--------------------------------------------------------------------------
(* convert_text_to_numeric: convert_numeric.py *)

\* A mapping table whose keys are the given answer texts, coded 1, 2, ... in
\* the order written.
Codes(options) ==
    [ k \in Elements(options) |-> CHOOSE i \in DOMAIN options : options[i] = k ]

AgreeScale ==
    Codes(<<"Strongly agree", "Agree", "Neutral", "Disagree", "Strongly disagree">>)

DefinitelyScale ==
    Codes(<<"Definitely yes", "Probably yes", "Not sure", "Probably not",
            "Definitely not">>)

\* The thirteen tables; the dash of the fourth q13_incentive answer is written
\* as a hyphen here.
RESPONSE_MAPPINGS ==
    [ q1_emotion |->
          Codes(<<"Excitement", "Curiosity", "Indifference", "Frustration", "Distrust">>),
      q2_frequency |-> Codes(<<"Always", "Often", "Sometimes", "Rarely", "Never">>),
      q3_effort_tradeoff |-> DefinitelyScale,
      q4_perceived_impact |->
          Codes(<<"Yes, definitely", "Maybe somewhat", "Not really", "Not at all">>),
      q5_civic_duty |-> AgreeScale,
      q6_emotional_reward |->
          Codes(<<"Proud and satisfied", "Relieved or calm", "Neutral",
                  "Like it didn't matter", "Regretful or skeptical">>),
      q7_trust |->
          Codes(<<"Very confident", "Somewhat confident", "Unsure",
                  "Somewhat doubtful", "Very doubtful">>),
      q8_social_influence |-> AgreeScale,
      q9_information_load |-> AgreeScale,
      q10_disillusionment |-> AgreeScale,
      q11_online_voting |-> DefinitelyScale,
      q12_competitiveness |-> DefinitelyScale,
      q13_incentive |->
          Codes(<<"A chance to win a small monetary reward (e.g., local prize lottery for voters)",
                  "A 'Voter ID badge' or digital certificate recognizing participation",
                  "Social media acknowledgment or a 'Voter' badge for your profile",
                  "Nothing - I'd vote anyway",
                  "None of these would make a difference">>) ]

\* Series.map(mapping) on one cell, the unmapped value kept as it is
MapCellKeepingUnmapped(cell, mapping) ==
    IF IsText(cell) /\ cell[2] \in DOMAIN mapping THEN Num(mapping[cell[2]]) ELSE cell

\* Series.map(mapping) on one cell: the code of a key of the dict, missing for
\* every other value and for a missing one.
MapCell(cell, mapping) ==
    IF IsNa(cell) THEN NaN
    ELSE IF IsText(cell) /\ cell[2] \in DOMAIN mapping THEN Num(mapping[cell[2]])
    ELSE NaN

\* The number of rows whose cell in column col is missing / is not
NaCount(rows, col) == Cardinality({ i \in DOMAIN rows : IsNa(rows[i][col]) })

\* The columns the loop converts: the mapped ones the table has
MappedColumns(table) == DOMAIN RESPONSE_MAPPINGS \cap table.columns

\* df_numeric after the loop: every mapped column present replaced by its map
Converted(table) ==
    [ columns |-> table.columns,
      rows |-> [ i \in DOMAIN table.rows |->
                   [ c \in table.columns |->
                       IF c \in DOMAIN RESPONSE_MAPPINGS
                       THEN MapCell(table.rows[i][c], RESPONSE_MAPPINGS[c])
                       ELSE table.rows[i][c] ] ] ]

\* conversion_stats[col], from original_values and df_numeric[col]
ColumnStats(original, numeric, col) ==
    [ converted |->
          Cardinality({ i \in DOMAIN original :
                          ~IsNa(original[i][col]) /\ ~IsNa(numeric[i][col]) }),
      missing |-> NaCount(original, col),
      unmapped |->
          Cardinality({ i \in DOMAIN original :
                          ~IsNa(original[i][col]) /\ IsNa(numeric[i][col]) }) ]

\* Loading: semicolon delimiter first, then comma; None when both raise.
ConvertLoad ==
    /\ kpc = "load"
    /\ IF textFile.loads
       THEN /\ textDf' = textFile.table
            /\ df_numeric' = textFile.table
            /\ kpc' = "convert"
       ELSE /\ kpc' = "returned None"
            /\ UNCHANGED <<textDf, df_numeric>>
    /\ UNCHANGED <<textFile, conversion_stats, numericCsv, voterVars, genVars,
                   cleanVars, cliVars, simVars, scoreVars, probVars, expVars, testerVars>>

\* The loop over RESPONSE_MAPPINGS.items()
ConvertColumns ==
    /\ kpc = "convert"
    /\ df_numeric' = Converted(textDf)
    /\ conversion_stats' =
           [ c \in MappedColumns(textDf) |->
                 ColumnStats(textDf.rows, Converted(textDf).rows, c) ]
    /\ kpc' = "save"
    /\ UNCHANGED <<textFile, textDf, numericCsv, voterVars, genVars, cleanVars,
                   cliVars, simVars, scoreVars, probVars, expVars, testerVars>>

\* df_numeric.to_csv(output_path, index=False); return df_numeric, output_path
ConvertSave ==
    /\ kpc = "save"
    /\ numericCsv' = df_numeric
    /\ kpc' = "returned"
    /\ UNCHANGED <<textFile, textDf, df_numeric, conversion_stats, voterVars,
                   genVars, cleanVars, cliVars, simVars, scoreVars, probVars, expVars, testerVars>>

MaxTextRows == 2

\* The cells of a raw export: a key of the column's table, a key of another
\* table, a variant spelling, a number, nothing.
TextCells(col) ==
    CASE col = "q2_frequency" ->
             {NaN, Text("Always"), Text("Never"), Text("always"), Num(3)}
      [] col = "q4_perceived_impact" -> {NaN, Text("Not at all"), Text("Always")}
      [] col = "q5_civic_duty" -> {NaN, Text("Neutral"), Text("Strongly Agree")}
      [] col = "age_range" -> {Text("18-24")}

TextSchemas ==
    { {"age_range", "q2_frequency", "q4_perceived_impact", "q5_civic_duty"},
      {"age_range", "q2_frequency", "q5_civic_duty"},
      {"age_range"} }

TextTables ==
    UNION { { [ columns |-> cols, rows |-> rows ] :
                rows \in [1..n -> { r \in [cols -> UNION {TextCells(c) : c \in cols}] :
                                      \A c \in cols : r[c] \in TextCells(c) }] } :
            cols \in TextSchemas, n \in 0..MaxTextRows }

InitConv ==
    /\ kpc = "load"
    /\ textFile \in { [loads |-> TRUE, table |-> t] : t \in TextTables }
                    \cup { [loads |-> FALSE, table |-> <<>>] }
    /\ textDf = <<>> /\ df_numeric = <<>>
    /\ conversion_stats = <<>> /\ numericCsv = <<>>
    /\ VoterIdle /\ GenIdle /\ CleanIdle /\ CliIdle /\ SimIdle
    /\ ScoreIdle
    /\ ProbIdle
    /\ ExpIdle
    /\ TesterIdle

NextConv == ConvertLoad \/ ConvertColumns \/ ConvertSave

SpecConv == InitConv /\ [][NextConv]_vars

\* C15: for every mapped question column present in the input, each cell
\* whose original value is non-missing and not a key of the column's mapping
\* table is missing in the output and counted in the column's 'unmapped'
\* count; per column converted + missing + unmapped is the number of rows; the
\* output has exactly the input's rows.
C15_UnmappedBecomeMissingAndCounted ==
    kpc \in {"save", "returned"} =>
        /\ Len(df_numeric.rows) = Len(textDf.rows)
        /\ \A i \in DOMAIN textDf.rows :
              \A c \in textDf.columns \ DOMAIN RESPONSE_MAPPINGS :
                  df_numeric.rows[i][c] = textDf.rows[i][c]
        /\ kpc = "returned" => numericCsv = df_numeric
        /\ \A c \in DOMAIN RESPONSE_MAPPINGS \cap textDf.columns :
              LET unmappedRows ==
                      { i \in DOMAIN textDf.rows :
                          /\ textDf.rows[i][c][1] # "nan"
                          /\ ~( /\ textDf.rows[i][c][1] = "text"
                                /\ textDf.rows[i][c][2] \in DOMAIN RESPONSE_MAPPINGS[c] ) }
              IN /\ \A i \in unmappedRows : df_numeric.rows[i][c] = NaN
                 /\ conversion_stats[c].unmapped = Cardinality(unmappedRows)
                 /\ conversion_stats[c].converted + conversion_stats[c].missing
                      + conversion_stats[c].unmapped = Len(textDf.rows)

\* A table with an unmapped answer has been converted and written.
C15_Witness ==
    /\ kpc = "returned"
    /\ "q2_frequency" \in textDf.columns
    /\ Len(textDf.rows) = 2
    /\ textDf.rows[1]["q2_frequency"] = Text("always")
    /\ textDf.rows[2]["q2_frequency"] = Text("Never")
    /\ conversion_stats["q2_frequency"] = [converted |-> 1, missing |-> 0, unmapped |-> 1]

--------------------------------------------------------------------------
(* Composite scores: comprehensive_analysis.py and hypothesis_testing.py *)

\* Score cells hold numbers in SCALE units; answers are whole numbers.

\* an answer column as a float series
Scaled(cell) == IF IsNa(cell) THEN NaN ELSE Num(cell[2] * SCALE)

\* 6 - series
SixMinus(cell) == IF IsNa(cell) THEN NaN ELSE Num(6 * SCALE - cell[2])

\* series + series: missing when either is
AddCells(c1, c2) == IF IsNa(c1) \/ IsNa(c2) THEN NaN ELSE Num(c1[2] + c2[2])

\* series / n
DivideBy(cell, n) == IF IsNa(cell) THEN NaN ELSE Num(cell[2] \div n)

\* series * w, w in SCALE units
Times(cell, w) == IF IsNa(cell) THEN NaN ELSE Num(Mul(cell[2], w))

\* -series
Negated(cell) == IF IsNa(cell) THEN NaN ELSE Num(0 - cell[2])

NotNa(cell) == ~IsNa(cell)

RECURSIVE SumCells(_)
SumCells(cells) ==
    IF cells = <<>> THEN 0 ELSE Head(cells)[2] + SumCells(Tail(cells))

\* DataFrame.mean(axis=1): the mean of the cells present, missing when none is
MeanSkipNa(cells) ==
    LET present == SelectSeq(cells, NotNa)
    IN IF present = <<>> THEN NaN ELSE Num(SumCells(present) \div Len(present))

\* a mean that is missing as soon as one cell is
MeanStrict(cells) ==
    IF SelectSeq(cells, NotNa) # cells THEN NaN
    ELSE Num(SumCells(cells) \div Len(cells))

ScoreNames ==
    { "civic_duty_score", "social_pressure_score", "habit_score", "cost_score",
      "benefit_score", "trust_score", "engagement_score", "voting_utility" }

\* VoterSurveyAnalysis.create_composite_scores on one row
AnalysisCompositeScores(row) ==
    LET civic_duty_score == SixMinus(Scaled(row["q5_civic_duty"]))
        social_pressure_score == SixMinus(Scaled(row["q8_social_influence"]))
        habit_score == SixMinus(Scaled(row["q2_frequency"]))
        cost_score ==
            MeanSkipNa(<< Scaled(row["q3_effort_tradeoff"]),
                          Scaled(row["q9_information_load"]) >>)
        benefit_score ==
            DivideBy(AddCells(SixMinus(Scaled(row["q4_perceived_impact"])),
                              SixMinus(Scaled(row["q12_competitiveness"]))), 2)
        trust_score ==
            SixMinus(MeanSkipNa(<< Scaled(row["q7_trust"]),
                                   Scaled(row["q10_disillusionment"]) >>))
        engagement_score ==
            MeanSkipNa(<<civic_duty_score, habit_score, benefit_score, trust_score>>)
        voting_utility ==
            AddCells(AddCells(AddCells(AddCells(
                Times(benefit_score, 2000),
                Times(Negated(cost_score), 1500)),
                Times(civic_duty_score, 2500)),
                Times(social_pressure_score, 1500)),
                Times(habit_score, 2500))
    IN Update(row,
              [ civic_duty_score |-> civic_duty_score,
                social_pressure_score |-> social_pressure_score,
                habit_score |-> habit_score,
                cost_score |-> cost_score,
                benefit_score |-> benefit_score,
                trust_score |-> trust_score,
                engagement_score |-> engagement_score,
                voting_utility |-> voting_utility ])

\* HypothesisTester.create_composite_scores with a trust score that is
\* missing when one of its two answers is
TesterCompositeScoresStrictTrust(row) ==
    LET civic == SixMinus(Scaled(row["q5_civic_duty"]))
        social == SixMinus(Scaled(row["q8_social_influence"]))
        habit == SixMinus(Scaled(row["q2_frequency"]))
        cost == MeanSkipNa(<< Scaled(row["q3_effort_tradeoff"]),
                              Scaled(row["q9_information_load"]) >>)
        benefit == DivideBy(AddCells(SixMinus(Scaled(row["q4_perceived_impact"])),
                                     SixMinus(Scaled(row["q12_competitiveness"]))), 2)
        trust == SixMinus(MeanStrict(<< Scaled(row["q7_trust"]),
                                        Scaled(row["q10_disillusionment"]) >>))
    IN Update(row,
              [ civic_duty_score |-> civic,
                social_pressure_score |-> social,
                habit_score |-> habit,
                cost_score |-> cost,
                benefit_score |-> benefit,
                trust_score |-> trust,
                engagement_score |-> MeanSkipNa(<<civic, habit, benefit, trust>>),
                voting_utility |->
                    AddCells(AddCells(AddCells(AddCells(
                        Times(benefit, 2000),
                        Times(Negated(cost), 1500)),
                        Times(civic, 2500)),
                        Times(social, 1500)),
                        Times(habit, 2500)) ])

\* HypothesisTester.create_composite_scores on one row
TesterCompositeScores(row) ==
    LET civic == SixMinus(Scaled(row["q5_civic_duty"]))
        social == SixMinus(Scaled(row["q8_social_influence"]))
        habit == SixMinus(Scaled(row["q2_frequency"]))
        cost == MeanSkipNa(<< Scaled(row["q3_effort_tradeoff"]),
                              Scaled(row["q9_information_load"]) >>)
        benefit == DivideBy(AddCells(SixMinus(Scaled(row["q4_perceived_impact"])),
                                     SixMinus(Scaled(row["q12_competitiveness"]))), 2)
        trust == SixMinus(MeanSkipNa(<< Scaled(row["q7_trust"]),
                                        Scaled(row["q10_disillusionment"]) >>))
    IN Update(row,
              [ civic_duty_score |-> civic,
                social_pressure_score |-> social,
                habit_score |-> habit,
                cost_score |-> cost,
                benefit_score |-> benefit,
                trust_score |-> trust,
                engagement_score |-> MeanSkipNa(<<civic, habit, benefit, trust>>),
                voting_utility |->
                    AddCells(AddCells(AddCells(AddCells(
                        Times(benefit, 2000),
                        Times(Negated(cost), 1500)),
                        Times(civic, 2500)),
                        Times(social, 1500)),
                        Times(habit, 2500)) ])

\* generate_full_report's call of create_composite_scores; it may be repeated.
AnalysisCreateCompositeScores ==
    /\ analysisDf # <<>>
    /\ analysisDf' = AnalysisCompositeScores(analysisDf)
    /\ UNCHANGED <<rawRow, testerDf, voterVars, genVars, cleanVars, cliVars,
                   simVars, convVars, probVars, expVars, testerVars>>

\* HypothesisTester.__init__'s call, made when the table has no
\* civic_duty_score column yet.
TesterCreateCompositeScores ==
    /\ testerDf # <<>>
    /\ "civic_duty_score" \notin DOMAIN testerDf
    /\ testerDf' = TesterCompositeScores(testerDf)
    /\ UNCHANGED <<rawRow, analysisDf, voterVars, genVars, cleanVars, cliVars,
                   simVars, convVars, probVars, expVars, testerVars>>

\* The question columns the scores read
ScoreInputs ==
    { "q2_frequency", "q3_effort_tradeoff", "q4_perceived_impact", "q5_civic_duty",
      "q7_trust", "q8_social_influence", "q9_information_load",
      "q10_disillusionment", "q12_competitiveness" }

\* The cells of a row of the file: answers, blanks and, in one column, text.
RawAnswers(col) ==
    CASE col = "q5_civic_duty" -> {NaN, Text(1), Num(2), Num(5)}
      [] col = "q8_social_influence" -> {NaN, Num(1)}
      [] OTHER -> {NaN, Num(1), Num(4)}

RawRows ==
    { r \in [ScoreInputs -> UNION {RawAnswers(c) : c \in ScoreInputs}] :
        \A c \in ScoreInputs : r[c] \in RawAnswers(c) }

\* pd.to_numeric(errors='coerce') on the question columns, in both __init__
NumericRow(row) == [c \in DOMAIN row |-> Coerce(row[c])]

InitScores ==
    /\ rawRow \in RawRows
    /\ analysisDf = NumericRow(rawRow)
    /\ testerDf = NumericRow(rawRow)
    /\ VoterIdle /\ GenIdle /\ CleanIdle /\ CliIdle /\ SimIdle /\ ConvIdle
    /\ ProbIdle
    /\ ExpIdle
    /\ TesterIdle

NextScores == AnalysisCreateCompositeScores \/ TesterCreateCompositeScores

SpecScores == InitScores /\ [][NextScores]_vars

\* C17: for every respondent row, rows with missing answers included, each
\* of the eight composite scores VoterSurveyAnalysis.create_composite_scores
\* computes equals the one HypothesisTester.create_composite_scores computes
\* from the same answers: both missing, or both the same value.
C17_BothClassesComputeTheSameScores ==
    ( /\ ScoreNames \subseteq DOMAIN analysisDf
      /\ ScoreNames \subseteq DOMAIN testerDf ) =>
        \A name \in ScoreNames : analysisDf[name] = testerDf[name]

\* Both have scored a row whose q7_trust is missing and q10_disillusionment
\* is not: the trust score is present in both.
C17_Witness ==
    /\ ScoreNames \subseteq DOMAIN analysisDf
    /\ ScoreNames \subseteq DOMAIN testerDf
    /\ rawRow["q7_trust"] = NaN
    /\ rawRow["q10_disillusionment"] = Num(4)
    /\ testerDf["trust_score"] = Num(2 * SCALE)
    /\ analysisDf["trust_score"] = Num(2 * SCALE)

--------------------------------------------------------------------------
(* DDMVoter.compute_analytical_probability *)

\* np.exp(x) is inf in binary64 for x > 709.78...
EXP_OVERFLOW == 709

\* The whole part of -2 * m * x / s^2, the argument of np.exp
Exponent(m, x, s) == (0 - 2 * m * x) \div (s * s)

\* What np.exp returns for an argument with whole part e: inf or a finite
\* number; either one when e is the whole part of the overflow threshold.
ExpValues(e) ==
    IF e > EXP_OVERFLOW THEN {"inf"}
    ELSE IF e = EXP_OVERFLOW THEN {"inf", "finite"}
    ELSE {"finite"}

\* abs(denominator) < 1e-10 for a finite exponential: |2 * m * thr / s^2|
\* below 1e-10
DenominatorVanishes(m, thr, s) ==
    (s \div 100000) * (s \div 100000) > 2 * (IF m < 0 THEN 0 - m ELSE m) * thr

\* np.clip(numerator / denominator, 0, 1) as binary64 computes it, a number
\* in [0, 1]
ClampedRatio == <<"ratio", 0>>

\* The values compute_analytical_probability may return for the scalars
\* m, thr, x, s: z / a for a zero drift; 1.0 or 0.0 for a vanishing
\* denominator; nan when both exponentials are inf (inf / inf, which np.clip
\* passes on); the clamped ratio otherwise.
AnalyticalProbability(m, thr, x, s) ==
    IF m = 0 THEN { Num(Div(x, thr)) }
    ELSE { IF d = "finite" /\ DenominatorVanishes(m, thr, s)
           THEN (IF m > 0 THEN Num(SCALE) ELSE Num(0))
           ELSE IF n = "inf" /\ d = "inf" THEN NaN
           ELSE ClampedRatio :
             n \in ExpValues(Exponent(m, x, s)),
             d \in ExpValues(Exponent(m, thr, s)) }

ComputeAnalyticalProbability ==
    /\ vpc = "voter"
    /\ pVote' \in AnalyticalProbability(mu, a, z, sigma)
    /\ called' = ~called
    /\ UNCHANGED <<voterVars, genVars, cleanVars, cliVars, simVars, convVars,
                   scoreVars, expVars, testerVars>>

\* Features in [0, 1], with a voting cost of 0.5 or 1.0
ProbFeatures ==
    { [f EXCEPT !["voting_cost_total"] = c] : f \in SimFeatures, c \in {HALF, SCALE} }

\* The defaults, and parameters at the ends of calibrate's bounds with a
\* sigma_base of 0.05
ProbParams ==
    { DDMParameters,
      [DDMParameters EXCEPT !.drift_rate_base = 100, !.threshold_base = 40000,
                            !.beta_D = 0, !.beta_H = 0, !.beta_S = 0,
                            !.beta_C = -5000, !.sigma_base = 500] }

InitProb ==
    /\ vpc = "new"
    /\ features \in ProbFeatures
    /\ params \in ProbParams
    /\ mu = 0 /\ a = 0 /\ z = 0 /\ sigma = 0
    /\ nNudges = 0 /\ raised = "none" /\ named = {} /\ warned = {}
    /\ called = FALSE /\ pVote = <<>>
    /\ GenIdle /\ CleanIdle /\ CliIdle /\ SimIdle /\ ConvIdle /\ ScoreIdle
    /\ ExpIdle
    /\ TesterIdle

NextProb ==
    \/ Construct
    \/ \E type \in NudgeTypes : ApplyNudge(type)
    \/ ComputeAnalyticalProbability

SpecProb == InitProb /\ [][NextProb]_vars

\* C18: compute_analytical_probability returns z/a when |mu| < 1e-6 and
\* otherwise the closed-form ratio clamped to [0,1]; in every reachable
\* voter state the value returned is a number in [0,1]; the call changes no
\* field of the voter.
C18_ReturnsNumberInUnitInterval ==
    [][ called' # called =>
          /\ UNCHANGED <<features, params, mu, a, z, sigma>>
          /\ pVote' # NaN
          /\ pVote' = IF mu = 0 THEN Num((z * SCALE) \div a) ELSE <<"ratio", 0>>
          /\ pVote'[1] = "num" => (0 <= pVote'[2] /\ pVote'[2] <= SCALE) ]_vars

--------------------------------------------------------------------------
(* DDMSimulation: run_baseline and run_nudge_experiment *)

\* _create_ddm_voters: one DDMVoter per agent, in order
BuildVoter(f, p) ==
    [ features |-> f,
      mu |-> ComputeDriftRate(f, p),
      a |-> ComputeThreshold(f, p),
      z |-> ComputeStartingPoint(f, p, ComputeThreshold(f, p)),
      sigma |-> ComputeDiffusion(f, p) ]

\* simulate_election(use_analytical=True): np.random.binomial raises
\* ValueError when one of the probabilities is nan.
ElectionMayRaise(vs) ==
    \E i \in DOMAIN vs :
        NaN \in AnalyticalProbability(vs[i].mu, vs[i].a, vs[i].z, vs[i].sigma)

ElectionMayReturn(vs) ==
    \A i \in DOMAIN vs :
        AnalyticalProbability(vs[i].mu, vs[i].a, vs[i].z, vs[i].sigma) # {NaN}

\* n_control = int(len(self.voters) * (1 - treatment_fraction))
ControlCount(n, fraction) == (n * (SCALE - fraction)) \div SCALE

\* apply_nudges on copies of the treatment voters: self.voters stays as it is
ApplyNudgesToCopies(vs, n_control, type, p) == vs

\* treatment_pop.apply_nudges(nudge_assignment): every voter after the first
\* n_control is nudged, in place; the nudge_params are the defaults.
ApplyNudges(vs, n_control, type, p) ==
    [ i \in DOMAIN vs |->
        IF i > n_control
        THEN Nudged(vs[i], vs[i].features, p, type, DefaultNudgeParams)
        ELSE vs[i] ]

MaxExperiments == 3

MaxVoters == 2

\* run_baseline: an election of the whole population; nothing is written.
RunBaseline ==
    /\ epc = "ready"
    /\ \/ /\ ElectionMayRaise(voters)
          /\ experiment' = [ kind |-> "baseline", nudge_type |-> "none",
                             treatment_fraction |-> 0, n_control |-> 0,
                             outcome |-> "ValueError" ]
       \/ /\ ElectionMayReturn(voters)
          /\ experiment' = [ kind |-> "baseline", nudge_type |-> "none",
                             treatment_fraction |-> 0, n_control |-> 0,
                             outcome |-> "returned" ]
    /\ UNCHANGED <<epc, ddm_params, voters, applied, nExperiments, voterVars,
                   genVars, cleanVars, cliVars, simVars, convVars, scoreVars,
                   probVars, testerVars>>

\* run_nudge_experiment(nudge_type, nudge_params, treatment_fraction): the
\* control election, the nudges, the treatment election.
RunNudgeExperiment(type, fraction) ==
    /\ epc = "ready"
    /\ nExperiments < MaxExperiments
    /\ nExperiments' = nExperiments + 1
    /\ LET n_control == ControlCount(Len(voters), fraction)
           treated == ApplyNudges(voters, n_control, type, ddm_params)
       IN \/ /\ ElectionMayRaise(SubSeq(voters, 1, n_control))
             /\ experiment' = [ kind |-> "nudge", nudge_type |-> type,
                                treatment_fraction |-> fraction,
                                n_control |-> n_control,
                                outcome |-> "ValueError in control election" ]
             /\ UNCHANGED <<voters, applied>>
          \/ /\ ElectionMayReturn(SubSeq(voters, 1, n_control))
             /\ type \notin NudgeTypes
             /\ n_control < Len(voters)
             /\ experiment' = [ kind |-> "nudge", nudge_type |-> type,
                                treatment_fraction |-> fraction,
                                n_control |-> n_control,
                                outcome |-> "ValueError: Unknown nudge type" ]
             /\ UNCHANGED <<voters, applied>>
          \/ /\ ElectionMayReturn(SubSeq(voters, 1, n_control))
             /\ type \in NudgeTypes \/ n_control = Len(voters)
             /\ voters' = treated
             /\ applied' = [ i \in DOMAIN applied |->
                               IF i > n_control THEN Append(applied[i], type)
                               ELSE applied[i] ]
             /\ \/ /\ ElectionMayRaise(SubSeq(treated, n_control + 1, Len(voters)))
                   /\ experiment' = [ kind |-> "nudge", nudge_type |-> type,
                                      treatment_fraction |-> fraction,
                                      n_control |-> n_control,
                                      outcome |-> "ValueError in treatment election" ]
                \/ /\ ElectionMayReturn(SubSeq(treated, n_control + 1, Len(voters)))
                   /\ experiment' = [ kind |-> "nudge", nudge_type |-> type,
                                      treatment_fraction |-> fraction,
                                      n_control |-> n_control,
                                      outcome |-> "returned" ]
    /\ UNCHANGED <<epc, ddm_params, voterVars, genVars, cleanVars, cliVars,
                   simVars, convVars, scoreVars, probVars, testerVars>>

\* Agents of a scenario: all features at 1.0 but civic duty and social
\* pressure, with a voting cost of 0.5 or, from global_context, of 6.0.
ExpFeatures ==
    { [f EXCEPT !["voting_cost_total"] = c] :
        f \in { g \in FullRecords :
                  /\ g["civic_duty"] = 0 /\ g["social_pressure_sensitivity"] = 0
                  /\ g["habit_strength"] = SCALE /\ g["risk_aversion"] = SCALE
                  /\ g["education_normalized"] = SCALE /\ g["overconfidence"] = SCALE },
        c \in {HALF, 6 * SCALE} }

\* load_ddm_parameters_from_config: the defaults, or the six configured
\* values at the ends of calibrate's bounds
ExpParams ==
    { DDMParameters,
      [DDMParameters EXCEPT !.drift_rate_base = 100, !.threshold_base = 40000,
                            !.beta_D = 0, !.beta_H = 0, !.beta_S = 0,
                            !.beta_C = -5000] }

ExperimentNudges == {"social_norm", "identity", "implementation", "unknown"}

TreatmentFractions == {0, HALF, SCALE}

\* DDMSimulation.__init__
InitExp ==
    /\ epc = "ready"
    /\ ddm_params \in ExpParams
    /\ \E agents_ \in UNION { [1..n -> ExpFeatures] : n \in 0..MaxVoters } :
          /\ voters = [i \in DOMAIN agents_ |-> BuildVoter(agents_[i], ddm_params)]
          /\ applied = [i \in DOMAIN agents_ |-> <<>>]
    /\ experiment = <<>>
    /\ nExperiments = 0
    /\ VoterIdle /\ GenIdle /\ CleanIdle /\ CliIdle /\ SimIdle /\ ConvIdle
    /\ ScoreIdle /\ ProbIdle
    /\ TesterIdle

NextExp ==
    \/ RunBaseline
    \/ \E type \in ExperimentNudges, fraction \in TreatmentFractions :
          RunNudgeExperiment(type, fraction)

SpecExp == InitExp /\ [][NextExp]_vars

\* The scalars of a voter after the nudges of the given types, applied in
\* order to v
RECURSIVE AfterNudges(_, _, _)
AfterNudges(v, types, p) ==
    IF types = <<>> THEN v
    ELSE AfterNudges(Nudged(v, v.features, p, Head(types), DefaultNudgeParams),
                     Tail(types), p)

\* C19: after any sequence of run_nudge_experiment calls on one DDMSimulation,
\* the mu, a, z, sigma of every voter are the result of applying, in order,
\* every nudge of the experiments that treated it to its construction-time
\* values; nothing restores the construction-time values.
C19_NudgesAccumulateAcrossExperiments ==
    epc = "ready" =>
        \A i \in DOMAIN voters :
            LET f == voters[i].features
                built ==
                    [ features |-> f,
                      mu |-> ComputeDriftRate(f, ddm_params),
                      a |-> ComputeThreshold(f, ddm_params),
                      z |-> ComputeStartingPoint(f, ddm_params,
                                                 ComputeThreshold(f, ddm_params)),
                      sigma |-> ComputeDiffusion(f, ddm_params) ]
            IN voters[i] = AfterNudges(built, applied[i], ddm_params)

\* Three experiments have treated the second of two voters, the first of
\* them twice, and the second is no longer as constructed.
C19_Witness ==
    /\ nExperiments = 3
    /\ Len(voters) = 2
    /\ applied[1] = <<"identity">>
    /\ applied[2] = <<"social_norm", "identity", "implementation">>
    /\ voters[2].sigma # ComputeDiffusion(voters[2].features, ddm_params)
    /\ voters[2].a # ComputeThreshold(voters[2].features, ddm_params)

\* C20: for n voters and a treatment fraction f in [0,1], run_nudge_experiment
\* takes the first int(n * (1 - f)) voters as control and all the others as
\* treatment; the nudge is applied exactly once to each treatment voter and
\* no control voter's mu, a, z or sigma is changed by the call.
C20_ControlUntouchedTreatmentNudgedOnce ==
    [][ ( /\ nExperiments' = nExperiments + 1
          /\ experiment'.nudge_type \in NudgeTypes ) =>
          LET n == Len(voters)
              n_control == (n * (SCALE - experiment'.treatment_fraction)) \div SCALE
          IN /\ Len(voters') = n
             /\ 0 <= n_control /\ n_control <= n
             /\ \A i \in 1..n_control : voters'[i] = voters[i]
             /\ \A i \in (n_control + 1)..n :
                   voters'[i] = Nudged(voters[i], voters[i].features, ddm_params,
                                       experiment'.nudge_type, DefaultNudgeParams) ]_vars


\* C25: in CLI mode 'hypotheses' every stratified hypothesis (HN1, HN3, HN6)
\* whose test returned a result with at least one stratum gets the chart
\* hypothesis_<name>.png, and the comparison hypothesis HN2 gets none.
C25_ChartForEveryStratifiedResult ==
    \A k \in DOMAIN attempted :
        LET h_name == attempted[k].name
            chart == "hypothesis_" \o h_name \o ".png"
        IN /\ ( /\ h_name \in Stratified
                /\ ~attempted[k].raised
                /\ all_results[h_name].keys # {} ) => chart \in DOMAIN files
           /\ h_name \notin Stratified => chart \notin DOMAIN files


\* C28: for both values of remove_flagged, the 'Final responses' count of the
\* report of a run_full_cleaning call equals the number of rows the same call
\* writes to the cleaned CSV.
C28_FinalResponsesIsRowsWritten ==
    DOMAIN csv # {} => reportText.final_responses = Len(csv.rows)

--------------------------------------------------------------------------
(* DDMSimulation.run_hypothesis_test *)

\* hypothesis_configs; a description is the list of its words, the
\* nudge_params are the dict literals of the source.
HypothesisConfigs(h) ==
    CASE h = "HN1" ->
           [ description |-> <<"Monetary", "lottery", "more", "effective", "for",
                               "low", "civic", "duty">>,
             nudge_type |-> "monetary",
             nudge_params |-> [lottery_value |-> 3000, lottery_prob |-> 100],
             test_type |-> "stratified" ]
      [] h = "HN2" ->
           [ description |-> <<"Social", "norm", "more", "effective", "than",
                               "informational">>,
             nudge_type |-> "comparison",
             nudges |-> <<"social_norm", "competitiveness">>,
             test_type |-> "comparison" ]
      [] h = "HN3" ->
           [ description |-> <<"Identity", "framing", "most", "effective", "for",
                               "moderate", "civic", "duty">>,
             nudge_type |-> "identity",
             nudge_params |-> [identity_strength |-> 7000, frame_strength |-> SCALE],
             test_type |-> "stratified" ]
      [] h = "HN6" ->
           [ description |-> <<"Competitiveness", "info", "affects", "high",
                               "efficacy", "voters">>,
             nudge_type |-> "competitiveness",
             nudge_params |-> [competitiveness_info |-> 8000],
             test_type |-> "stratified" ]

HypothesisNames == {"HN1", "HN2", "HN3", "HN6"}

\* 'HN1' in config['description']: no word of a description contains a
\* hypothesis name, so the substring test is a test on the words.
Mentions(description, name) ==
    \E k \in DOMAIN description : description[k] = name

\* The stratification _test_stratified_effect selects for a configuration.
Stratification(cfg) ==
    IF Mentions(cfg.description, "HN1") \/ Mentions(cfg.description, "HN3")
    THEN [ strata_var |-> "civic_duty",
           thresholds |-> <<0, 3300, 6700, SCALE>>,
           labels |-> <<"Low", "Medium", "High">> ]
    ELSE [ strata_var |-> "education_normalized",
           thresholds |-> <<0, HALF, SCALE>>,
           labels |-> <<"Low", "High">> ]

\* [v for v in self.voters if lower <= v.features[strata_var] < upper], as
\* the positions of these voters, in order
StratumPositions(vs, var, lower, upper) ==
    SelectSeq([k \in 1..Len(vs) |-> k],
              LAMBDA k : lower <= vs[k].features[var] /\ vs[k].features[var] < upper)

\* the voters at the given positions, as the list a DDMPopulation is built on
Group(vs, positions) == [k \in DOMAIN positions |-> vs[positions[k]]]

Positions(seq) == { seq[k] : k \in DOMAIN seq }

\* apply_nudges with an assignment for every voter of the group
NudgeGroup(vs, positions, type, np, p) ==
    [ k \in DOMAIN vs |->
        IF k \in Positions(positions)
        THEN Nudged(vs[k], vs[k].features, p, type, np)
        ELSE vs[k] ]

RecordNudge(history, positions, type) ==
    [ k \in DOMAIN history |->
        IF k \in Positions(positions) THEN Append(history[k], type)
        ELSE history[k] ]

\* turnout = np.mean(decisions) for m decisions: k / m, and nan for none
Turnouts(m) ==
    IF m = 0 THEN {NaN} ELSE { Num(Div(k * SCALE, m * SCALE)) : k \in 0..m }

\* float subtraction
Minus(x, y) == IF x = NaN \/ y = NaN THEN NaN ELSE Num(x[2] - y[2])

\* float >: false when either side is nan
Greater(x, y) == x # NaN /\ y # NaN /\ x[2] > y[2]

\* max(effects, key=effects.get): the first key, unless a later one is greater
Winner(names, effects) ==
    IF Greater(effects[names[2]], effects[names[1]]) THEN names[2] ELSE names[1]

MaxTests == 2

MaxTestVoters == 3

\* The record of the test in progress or last run.
TestRecord(kind, name, strat, before) ==
    [ kind |-> kind, name |-> name, strata_var |-> strat.strata_var,
      thresholds |-> strat.thresholds, labels |-> strat.labels, i |-> 1,
      results |-> <<>>, controls |-> {}, before |-> before,
      outcome |-> "running" ]

NoStratification == [strata_var |-> "none", thresholds |-> <<>>, labels |-> <<>>]

\* _test_nudge_comparison: the control election, then for each of the two
\* nudges its group's nudges and election, then the winner.
TestNudgeComparison(h) ==
    LET cfg == HypothesisConfigs(h)
        n == Len(voters)
        n_per_group == n \div 3
        control == [k \in 1..n_per_group |-> k]
        first == [k \in 1..n_per_group |-> n_per_group + k]
        second == [k \in 1..(n - 2 * n_per_group) |-> 2 * n_per_group + k]
        params1 == [revealed_turnout |-> 7500, prior_belief |-> 5000]
        params2 == [competitiveness_info |-> 8000]
        v1 == NudgeGroup(voters, first, cfg.nudges[1], params1, ddm_params)
        v2 == NudgeGroup(v1, second, cfg.nudges[2], params2, ddm_params)
        rec == [TestRecord("comparison", h, NoStratification, voters)
                  EXCEPT !.controls = Positions(control)]
    IN \/ /\ ElectionMayRaise(Group(voters, control))
          /\ experiment' = [rec EXCEPT !.outcome = "ValueError"]
          /\ UNCHANGED <<voters, applied>>
       \/ /\ ElectionMayReturn(Group(voters, control))
          /\ ElectionMayRaise(Group(v1, first))
          /\ experiment' = [rec EXCEPT !.outcome = "ValueError"]
          /\ voters' = v1
          /\ applied' = RecordNudge(applied, first, cfg.nudges[1])
       \/ /\ ElectionMayReturn(Group(voters, control))
          /\ ElectionMayReturn(Group(v1, first))
          /\ ElectionMayRaise(Group(v2, second))
          /\ experiment' = [rec EXCEPT !.outcome = "ValueError"]
          /\ voters' = v2
          /\ applied' = RecordNudge(RecordNudge(applied, first, cfg.nudges[1]),
                                    second, cfg.nudges[2])
       \/ /\ ElectionMayReturn(Group(voters, control))
          /\ ElectionMayReturn(Group(v1, first))
          /\ ElectionMayReturn(Group(v2, second))
          /\ voters' = v2
          /\ applied' = RecordNudge(RecordNudge(applied, first, cfg.nudges[1]),
                                    second, cfg.nudges[2])
          /\ \E c \in Turnouts(Len(control)), t1 \in Turnouts(Len(first)),
                t2 \in Turnouts(Len(second)) :
                LET effects == (cfg.nudges[1] :> Minus(t1, c))
                               @@ (cfg.nudges[2] :> Minus(t2, c))
                IN experiment' =
                     [rec EXCEPT
                        !.outcome = "returned",
                        !.results =
                            ("control" :> [turnout |-> c, effect |-> NaN])
                            @@ (cfg.nudges[1] :>
                                  [turnout |-> t1, effect |-> effects[cfg.nudges[1]]])
                            @@ (cfg.nudges[2] :>
                                  [turnout |-> t2, effect |-> effects[cfg.nudges[2]]])
                            @@ ("winner" :>
                                  [turnout |-> NaN,
                                   effect |-> Str(Winner(cfg.nudges, effects))])]

\* run_hypothesis_test(hypothesis_name): an unknown name raises; a comparison
\* runs here; a stratified test enters the loop over the strata.
RunHypothesisTest(h) ==
    /\ epc = "ready"
    /\ nExperiments < MaxTests
    /\ nExperiments' = nExperiments + 1
    /\ IF h \notin HypothesisNames
       THEN /\ experiment' =
                  [TestRecord("none", h, NoStratification, voters)
                     EXCEPT !.outcome = "ValueError: Unknown hypothesis"]
            /\ UNCHANGED <<epc, voters, applied>>
       ELSE IF HypothesisConfigs(h).test_type = "comparison"
       THEN /\ TestNudgeComparison(h)
            /\ UNCHANGED epc
       ELSE /\ experiment' =
                  TestRecord("stratified", h, Stratification(HypothesisConfigs(h)),
                             voters)
            /\ epc' = "strata"
            /\ UNCHANGED <<voters, applied>>
    /\ UNCHANGED <<ddm_params, voterVars, genVars, cleanVars, cliVars, simVars,
                   convVars, scoreVars, probVars, testerVars>>

\* One iteration of the loop of _test_stratified_effect; after the last
\* stratum the test returns.
TestStratum ==
    /\ epc = "strata"
    /\ LET cfg == HypothesisConfigs(experiment.name)
           i == experiment.i
           stratum_voters ==
               StratumPositions(voters, experiment.strata_var,
                                experiment.thresholds[i], experiment.thresholds[i + 1])
           n == Len(stratum_voters)
           n_control == n \div 2
           control == SubSeq(stratum_voters, 1, n_control)
           treatment == SubSeq(stratum_voters, n_control + 1, n)
           treated == NudgeGroup(voters, treatment, cfg.nudge_type,
                                 cfg.nudge_params, ddm_params)
           finished == i = Len(experiment.labels)
           onward == [experiment EXCEPT
                        !.i = i + 1,
                        !.outcome = IF finished THEN "returned" ELSE "running"]
       IN \/ /\ n = 0
             /\ experiment' = onward
             /\ epc' = IF finished THEN "ready" ELSE "strata"
             /\ UNCHANGED <<voters, applied>>
          \/ /\ n > 0
             /\ ElectionMayRaise(Group(voters, control))
             /\ experiment' = [experiment EXCEPT
                                 !.outcome = "ValueError",
                                 !.controls = @ \cup Positions(control)]
             /\ epc' = "ready"
             /\ UNCHANGED <<voters, applied>>
          \/ /\ n > 0
             /\ ElectionMayReturn(Group(voters, control))
             /\ ElectionMayRaise(Group(treated, treatment))
             /\ experiment' = [experiment EXCEPT
                                 !.outcome = "ValueError",
                                 !.controls = @ \cup Positions(control)]
             /\ epc' = "ready"
             /\ voters' = treated
             /\ applied' = RecordNudge(applied, treatment, cfg.nudge_type)
          \/ /\ n > 0
             /\ ElectionMayReturn(Group(voters, control))
             /\ ElectionMayReturn(Group(treated, treatment))
             /\ voters' = treated
             /\ applied' = RecordNudge(applied, treatment, cfg.nudge_type)
             /\ epc' = IF finished THEN "ready" ELSE "strata"
             /\ \E c \in Turnouts(Len(control)), t \in Turnouts(Len(treatment)) :
                   experiment' =
                     [onward EXCEPT
                        !.controls = @ \cup Positions(control),
                        !.results = Update(@,
                            experiment.labels[i] :>
                              [ control_turnout |-> c, treatment_turnout |-> t,
                                effect |-> Minus(t, c), n |-> n ])]
    /\ UNCHANGED <<ddm_params, nExperiments, voterVars, genVars, cleanVars,
                   cliVars, simVars, convVars, scoreVars, probVars, testerVars>>

\* Agents of a scenario: education 0, 0.9 (with a voting cost of 6.0 from
\* global_context) or 1.0, civic duty 0, the other features as in ExpFeatures.
TestFeatures ==
    { [f EXCEPT !["education_normalized"] = ec[1], !["voting_cost_total"] = ec[2]] :
        f \in { g \in FullRecords :
                  /\ g["civic_duty"] = 0 /\ g["social_pressure_sensitivity"] = 0
                  /\ g["habit_strength"] = SCALE /\ g["risk_aversion"] = SCALE
                  /\ g["education_normalized"] = SCALE /\ g["overconfidence"] = SCALE },
        ec \in {<<0, HALF>>, <<9000, 6 * SCALE>>, <<SCALE, HALF>>} }

TestNames == HypothesisNames \cup {"HN4"}

\* DDMSimulation.__init__
InitTests ==
    /\ epc = "ready"
    /\ ddm_params \in ExpParams
    /\ \E agents_ \in UNION { [1..n -> TestFeatures] : n \in 0..MaxTestVoters } :
          /\ voters = [k \in DOMAIN agents_ |-> BuildVoter(agents_[k], ddm_params)]
          /\ applied = [k \in DOMAIN agents_ |-> <<>>]
    /\ experiment = [kind |-> "none"]
    /\ nExperiments = 0
    /\ VoterIdle /\ GenIdle /\ CleanIdle /\ CliIdle /\ SimIdle /\ ConvIdle
    /\ ScoreIdle /\ ProbIdle
    /\ TesterIdle

NextTests ==
    \/ \E h \in TestNames : RunHypothesisTest(h)
    \/ TestStratum

SpecTests == InitTests /\ [][NextTests]_vars

\* C21: run_hypothesis_test('HN1') and ('HN3') stratify by civic_duty with
\* thresholds 0, 0.33, 0.67, 1.0 and labels Low/Medium/High, and ('HN6')
\* stratifies by education_normalized with thresholds 0, 0.5, 1.0 and labels
\* Low/High.
C21_StratificationByHypothesis ==
    experiment.kind = "stratified" =>
        /\ experiment.name \in {"HN1", "HN3"} =>
              /\ experiment.strata_var = "civic_duty"
              /\ experiment.thresholds = <<0, 3300, 6700, SCALE>>
              /\ experiment.labels = <<"Low", "Medium", "High">>
        /\ experiment.name = "HN6" =>
              /\ experiment.strata_var = "education_normalized"
              /\ experiment.thresholds = <<0, HALF, SCALE>>
              /\ experiment.labels = <<"Low", "High">>

\* C22: in a stratified test that returned, every voter whose stratification
\* feature lies in [0,1], the value 1.0 included, is counted in exactly one
\* stratum: the sizes n reported over all strata sum to the number of such
\* voters.
C22_StratumSizesSumToVotersInRange ==
    (experiment.kind = "stratified" /\ experiment.outcome = "returned") =>
        SumValues([l \in DOMAIN experiment.results |-> experiment.results[l].n])
          = Cardinality({ k \in DOMAIN voters :
                            /\ 0 <= voters[k].features[experiment.strata_var]
                            /\ voters[k].features[experiment.strata_var] <= SCALE })

\* What C23 says of a stratified test that has returned: an entry for exactly
\* the non-empty strata, n the stratum's size, the first floor(n/2) voters of
\* a stratum as they were at the call and the others nudged exactly once.
StratifiedResultAsSpecified ==
    LET cfg == HypothesisConfigs(experiment.name)
        before == experiment.before
        members(i) ==
            StratumPositions(before, experiment.strata_var,
                             experiment.thresholds[i], experiment.thresholds[i + 1])
        nonEmpty == { i \in DOMAIN experiment.labels : Len(members(i)) > 0 }
    IN /\ DOMAIN experiment.results = { experiment.labels[i] : i \in nonEmpty }
       /\ \A i \in nonEmpty :
             /\ experiment.results[experiment.labels[i]].n = Len(members(i))
             /\ \A j \in 1..Len(members(i)) :
                   voters[members(i)[j]] =
                     IF j <= Len(members(i)) \div 2
                     THEN before[members(i)[j]]
                     ELSE Nudged(before[members(i)[j]],
                                 before[members(i)[j]].features, ddm_params,
                                 cfg.nudge_type, cfg.nudge_params)

\* C23: for any population a stratified hypothesis test returns without
\* raising; its result has an entry for exactly the non-empty strata, each
\* entry's n is the stratum's voter count, the first floor(n/2) voters of a
\* stratum are the un-nudged control and the others are nudged exactly once.
C23_StratifiedTestReturnsAsSpecified ==
    experiment.kind = "stratified" =>
        /\ experiment.outcome # "ValueError"
        /\ experiment.outcome = "returned" => StratifiedResultAsSpecified

\* The part of C23 about the tests that do return.
StratifiedReturnsAreAsSpecified ==
    (experiment.kind = "stratified" /\ experiment.outcome = "returned")
        => StratifiedResultAsSpecified

\* C24: with n voters and g = n div 3 the HN2 test uses positions [0,g) as
\* control, [g,2g) as the social_norm group and [2g,n) as the competitiveness
\* group; no control voter is nudged by the test, each treated voter is
\* nudged exactly once, and 'winner' is the nudge whose effect versus control
\* is the larger one (no other nudge has a greater effect).
C24_ComparisonGroupsNudgesAndWinner ==
    [][ (nExperiments' = nExperiments + 1 /\ experiment'.kind = "comparison") =>
          LET n == Len(voters)
              g == n \div 3
              r == experiment'.results
          IN /\ \A k \in 1..g : voters'[k] = voters[k]
             /\ \A k \in (g + 1)..(2 * g) :
                   voters'[k] = Nudged(voters[k], voters[k].features, ddm_params,
                                       "social_norm",
                                       [revealed_turnout |-> 7500, prior_belief |-> 5000])
             /\ \A k \in (2 * g + 1)..n :
                   voters'[k] = Nudged(voters[k], voters[k].features, ddm_params,
                                       "competitiveness",
                                       [competitiveness_info |-> 8000])
             /\ experiment'.outcome = "returned" =>
                   /\ r["winner"].effect \in {Str("social_norm"), Str("competitiveness")}
                   /\ \A other \in {"social_norm", "competitiveness"} :
                         ~ ( /\ r[other].effect # NaN
                             /\ r[r["winner"].effect[2]].effect # NaN
                             /\ r[other].effect[2] > r[r["winner"].effect[2]].effect[2] ) ]_vars

\* The part of C24 about the tests that do return.
ComparisonReturnsAreAsSpecified ==
    [][ ( /\ nExperiments' = nExperiments + 1 /\ experiment'.kind = "comparison"
          /\ experiment'.outcome = "returned" ) =>
          LET n == Len(voters)
              g == n \div 3
              r == experiment'.results
          IN /\ \A k \in 1..g : voters'[k] = voters[k]
             /\ \A k \in (g + 1)..(2 * g) :
                   voters'[k] = Nudged(voters[k], voters[k].features, ddm_params,
                                       "social_norm", DefaultNudgeParams)
             /\ \A k \in (2 * g + 1)..n :
                   voters'[k] = Nudged(voters[k], voters[k].features, ddm_params,
                                       "competitiveness", DefaultNudgeParams)
             /\ \A other \in {"social_norm", "competitiveness"} :
                   ~ Greater(r[other].effect, r[r["winner"].effect[2]].effect) ]_vars

\* C29: when the hypotheses are run in the order HN1, HN2, HN3, HN6 on one
\* DDMSimulation, every voter of a control group has its construction-time
\* mu, a, z and sigma when that group's turnout is simulated; here for the
\* control group of HN2, run after HN1 has returned.
C29_ControlVotersAsConstructed ==
    [][ ( /\ nExperiments = 1 /\ experiment.name = "HN1"
          /\ experiment.outcome = "returned"
          /\ nExperiments' = 2 /\ experiment'.name = "HN2" ) =>
          \A k \in 1..(Len(voters) \div 3) :
              /\ voters[k].mu = ComputeDriftRate(voters[k].features, ddm_params)
              /\ voters[k].a = ComputeThreshold(voters[k].features, ddm_params)
              /\ voters[k].z =
                    ComputeStartingPoint(voters[k].features, ddm_params,
                        ComputeThreshold(voters[k].features, ddm_params))
              /\ voters[k].sigma = ComputeDiffusion(voters[k].features, ddm_params) ]_vars

\* C30: in every stratified and comparison test run on a non-empty
\* population, each control and treatment group whose turnout is reported has
\* at least one voter, so every reported turnout is a number in [0,1].
C30_ReportedTurnoutsAreRates ==
    (Len(voters) > 0 /\ experiment.kind \in {"stratified", "comparison"}) =>
        \A l \in DOMAIN experiment.results :
            IF experiment.kind = "stratified"
            THEN /\ experiment.results[l].control_turnout # NaN
                 /\ experiment.results[l].control_turnout[2] \in 0..SCALE
                 /\ experiment.results[l].treatment_turnout # NaN
                 /\ experiment.results[l].treatment_turnout[2] \in 0..SCALE
            ELSE l # "winner" =>
                 /\ experiment.results[l].turnout # NaN
                 /\ experiment.results[l].turnout[2] \in 0..SCALE

--------------------------------------------------------------------------
(* HypothesisTester.generate_hypothesis_report and
   VoterSurveyAnalysis.model_component_correlations *)

None == <<"none", 0>>

\* Python truth value of a statistic: None and 0.0 are false, nan is true
Truthy(v) == v # None /\ v # Num(0)

\* `v if v else default`
OrElse(v, default) == IF Truthy(v) THEN v ELSE default

\* len(self.df[col].dropna()): a complete row has every answer; a civic-only
\* row has q5 alone, so only civic_duty_score and, through mean(axis=1),
\* engagement_score are present in it.
NonMissing(col) ==
    IF col \in {"civic_duty_score", "engagement_score"}
    THEN sample.complete + sample.civic_only
    ELSE sample.complete

\* len(self.df[[col1, col2]].dropna())
CompletePairs(col1, col2) == Min(NonMissing(col1), NonMissing(col2))

\* What stats.pearsonr may return as (r, p): a perfect correlation with
\* p = 0.0, or a weak one.
PearsonOutcomes ==
    { [r |-> Num(SCALE), p |-> Num(0)], [r |-> Num(3000), p |-> Num(4000)] }

\* HypothesisTester.safe_corr
TesterSafeCorr(col1, col2) ==
    IF CompletePairs(col1, col2) >= 10
    THEN { [r |-> o.r, p |-> o.p, n |-> CompletePairs(col1, col2)] :
             o \in PearsonOutcomes }
    ELSE { [r |-> None, p |-> None, n |-> 0] }

\* the safe_corr local to model_component_correlations: whether it computes
AnalysisSafeCorrComputes(col1, col2) == CompletePairs(col1, col2) > 10

\* The end of a test method: its safe_corr result and returned dict are kept.
TestDone(key, corr, returned, next) ==
    /\ correlations' = Update(correlations, key :> corr)
    /\ test_results' = Update(test_results, key :> returned)
    /\ tpc' = next

TestCivicDutyHypothesis ==
    /\ tpc = "h1"
    /\ \E c \in TesterSafeCorr("civic_duty_score", "voting_utility") :
          /\ TestDone("h1_civic_duty", c,
                      IF c.r # None THEN [r |-> c.r, p |-> c.p, n |-> c.n]
                      ELSE [r |-> Num(0), p |-> Num(SCALE), n |-> 0],
                      "h2")
          /\ quartiled' = (c.r # None /\ NonMissing("civic_duty_score") > 20)
    /\ UNCHANGED <<sample, p_values, relationships, voterVars, genVars, cleanVars,
                   cliVars, simVars, convVars, scoreVars, probVars, expVars>>

TestHabitFormationHypothesis ==
    /\ tpc = "h2"
    /\ \E c \in TesterSafeCorr("habit_score", "engagement_score") :
          TestDone("h2_habit", c,
                   IF c.r # None THEN [r |-> c.r, p |-> c.p, n |-> c.n]
                   ELSE [r |-> Num(0), p |-> Num(SCALE), n |-> 0],
                   "h3_h4")
    /\ UNCHANGED <<sample, quartiled, p_values, relationships, voterVars, genVars,
                   cleanVars, cliVars, simVars, convVars, scoreVars, probVars,
                   expVars>>

TestCostBenefitTradeoff ==
    /\ tpc = "h3_h4"
    /\ \E cost \in TesterSafeCorr("cost_score", "voting_utility"),
          benefit \in TesterSafeCorr("benefit_score", "voting_utility") :
          /\ correlations' =
                Update(correlations, ("h3_cost" :> cost) @@ ("h4_benefit" :> benefit))
          /\ test_results' =
                Update(test_results,
                       "h3_h4_cost_benefit" :>
                          [ cost_r |-> OrElse(cost.r, Num(0)),
                            cost_p |-> OrElse(cost.p, Num(SCALE)),
                            benefit_r |-> OrElse(benefit.r, Num(0)),
                            benefit_p |-> OrElse(benefit.p, Num(SCALE)) ])
          /\ tpc' = "h5"
    /\ UNCHANGED <<sample, quartiled, p_values, relationships, voterVars, genVars,
                   cleanVars, cliVars, simVars, convVars, scoreVars, probVars,
                   expVars>>

\* With more than 20 values and at least 5 respondents on each side of the
\* median (which depends on the answers) the t-test branch returns r and p
\* as they are.
TestSocialInfluenceHypothesis ==
    /\ tpc = "h5"
    /\ \E c \in TesterSafeCorr("social_pressure_score", "voting_utility"),
          bothSides \in BOOLEAN :
          TestDone("h5_social", c,
                   IF c.r # None /\ NonMissing("social_pressure_score") > 20 /\ bothSides
                   THEN [r |-> c.r, p |-> c.p, t |-> Num(2 * SCALE), p_ttest |-> Num(100)]
                   ELSE [r |-> OrElse(c.r, Num(0)), p |-> OrElse(c.p, Num(SCALE)),
                         t |-> Num(0), p_ttest |-> Num(SCALE)],
                   "h6")
    /\ UNCHANGED <<sample, quartiled, p_values, relationships, voterVars, genVars,
                   cleanVars, cliVars, simVars, convVars, scoreVars, probVars,
                   expVars>>

TestTrustDisillusionmentHypothesis ==
    /\ tpc = "h6"
    /\ \E c \in TesterSafeCorr("trust_score", "voting_utility") :
          TestDone("h6_trust", c,
                   [r |-> OrElse(c.r, Num(0)), p |-> OrElse(c.p, Num(SCALE))], "h7")
    /\ UNCHANGED <<sample, quartiled, p_values, relationships, voterVars, genVars,
                   cleanVars, cliVars, simVars, convVars, scoreVars, probVars,
                   expVars>>

TestCompetitivenessHypothesis ==
    /\ tpc = "h7"
    /\ \E c \in TesterSafeCorr("q12_competitiveness", "voting_utility") :
          TestDone("h7_competitiveness", c,
                   [r |-> OrElse(c.r, Num(0)), p |-> OrElse(c.p, Num(SCALE))], "h8")
    /\ UNCHANGED <<sample, quartiled, p_values, relationships, voterVars, genVars,
                   cleanVars, cliVars, simVars, convVars, scoreVars, probVars,
                   expVars>>

\* H8: fewer than 20 engagement values, too few cells or an exception give
\* the default; otherwise the chi-square statistic and its p.
TestIncentiveEffectiveness ==
    /\ tpc = "h8"
    /\ \E tested \in BOOLEAN :
          /\ tested => NonMissing("engagement_score") >= 20
          /\ test_results' =
                Update(test_results,
                       "h8_incentives" :>
                          IF tested THEN [chi2 |-> Num(5 * SCALE), p |-> Num(0)]
                          ELSE [chi2 |-> Num(0), p |-> Num(SCALE)])
    /\ tpc' = "summary"
    /\ UNCHANGED <<sample, correlations, quartiled, p_values, relationships,
                   voterVars, genVars, cleanVars, cliVars, simVars, convVars,
                   scoreVars, probVars, expVars>>

\* The summary of generate_hypothesis_report: the p_values of the chart and
\* of the significance lines.
SummarizeHypotheses ==
    /\ tpc = "summary"
    /\ p_values' =
          << test_results["h1_civic_duty"].p, test_results["h2_habit"].p,
             test_results["h3_h4_cost_benefit"].cost_p,
             test_results["h3_h4_cost_benefit"].benefit_p,
             test_results["h5_social"].p, test_results["h6_trust"].p,
             test_results["h7_competitiveness"].p, test_results["h8_incentives"].p >>
    /\ tpc' = "done"
    /\ UNCHANGED <<sample, correlations, test_results, quartiled, relationships,
                   voterVars, genVars, cleanVars, cliVars, simVars, convVars,
                   scoreVars, probVars, expVars>>

Relationships ==
    { <<"civic_duty_score", "voting_utility">>, <<"habit_score", "voting_utility">>,
      <<"cost_score", "voting_utility">>, <<"benefit_score", "voting_utility">> }

\* VoterSurveyAnalysis.model_component_correlations on the same file: None
\* with fewer than 10 rows having all six components, else the relationships
\* its safe_corr computes are printed.
ModelComponentCorrelations ==
    /\ tpc = "h1"
    /\ relationships.returned = "not called"
    /\ relationships' =
          IF sample.complete < 10
          THEN [returned |-> "None", reported |-> {}]
          ELSE [returned |-> "corr_model",
                reported |-> { rel \in Relationships :
                                 AnalysisSafeCorrComputes(rel[1], rel[2]) }]
    /\ UNCHANGED <<tpc, sample, correlations, test_results, quartiled, p_values,
                   voterVars, genVars, cleanVars, cliVars, simVars, convVars,
                   scoreVars, probVars, expVars>>

MaxComplete == 21

MaxCivicOnly == 1

\* HypothesisTester(filepath) and VoterSurveyAnalysis(filepath) constructed.
InitSurvey ==
    /\ tpc = "h1"
    /\ sample \in [complete : 0..MaxComplete, civic_only : 0..MaxCivicOnly]
    /\ correlations = <<>> /\ test_results = <<>> /\ quartiled = FALSE
    /\ p_values = <<>>
    /\ relationships = [returned |-> "not called", reported |-> {}]
    /\ VoterIdle /\ GenIdle /\ CleanIdle /\ CliIdle /\ SimIdle /\ ConvIdle
    /\ ScoreIdle /\ ProbIdle /\ ExpIdle

NextSurvey ==
    \/ TestCivicDutyHypothesis
    \/ TestHabitFormationHypothesis
    \/ TestCostBenefitTradeoff
    \/ TestSocialInfluenceHypothesis
    \/ TestTrustDisillusionmentHypothesis
    \/ TestCompetitivenessHypothesis
    \/ TestIncentiveEffectiveness
    \/ SummarizeHypotheses
    \/ ModelComponentCorrelations

SpecSurvey == InitSurvey /\ [][NextSurvey]_vars

\* C26: a correlation is computed exactly when at least 10 complete pairs
\* exist, both in HypothesisTester.safe_corr and in the helper of
\* model_component_correlations, and the H1 quartile breakdown is attempted
\* exactly when at least 20 non-missing civic_duty_score values exist.
C26_InclusiveMinimums ==
    /\ \A key \in DOMAIN correlations :
          (correlations[key].r # None) <=> (sample.complete >= 10)
    /\ relationships.returned = "corr_model" =>
          \A rel \in Relationships :
              (rel \in relationships.reported) <=> (sample.complete >= 10)
    /\ tpc # "h1" =>
          (quartiled <=> (sample.complete + sample.civic_only >= 20))

\* The first part of C26, on HypothesisTester.safe_corr alone.
TesterSafeCorrIsInclusive ==
    \A key \in DOMAIN correlations :
        (correlations[key].r # None) <=> (sample.complete >= 10)

\* C27: whenever a survey hypothesis test has enough data to compute a
\* correlation, the p-value stored in its result record and used for the
\* summary equals the p-value computed, p = 0 included; the default p = 1
\* appears only when the statistic could not be computed.
C27_StoredPValueIsComputedPValue ==
    tpc = "done" =>
        LET stored ==
              [ h1_civic_duty |-> test_results["h1_civic_duty"].p,
                h2_habit |-> test_results["h2_habit"].p,
                h3_cost |-> test_results["h3_h4_cost_benefit"].cost_p,
                h4_benefit |-> test_results["h3_h4_cost_benefit"].benefit_p,
                h5_social |-> test_results["h5_social"].p,
                h6_trust |-> test_results["h6_trust"].p,
                h7_competitiveness |-> test_results["h7_competitiveness"].p ]
            position ==
              [ h1_civic_duty |-> 1, h2_habit |-> 2, h3_cost |-> 3, h4_benefit |-> 4,
                h5_social |-> 5, h6_trust |-> 6, h7_competitiveness |-> 7 ]
        IN \A key \in DOMAIN correlations :
              correlations[key].r # None =>
                  /\ stored[key] = correlations[key].p
                  /\ p_values[position[key]] = correlations[key].p

==========================================================================
